---- MODULE Spec2Model ----
(***************************************************************************)
(* Marigraph: the IPC substrate (frame codec, streaming FrameReader), the  *)
(* Sixcol supervisor (spawn, READY handshake, event routing, shutdown) and *)
(* the column worker, modelled from the TypeScript sources.                *)
(*                                                                         *)
(* Bytes are naturals in 0..255, byte strings are sequences of bytes.      *)
(***************************************************************************)
EXTENDS Integers, Sequences, FiniteSets, TLC

(***************************************************************************)
(* Bounds of the model.                                                    *)
(***************************************************************************)
\* longest payload of the codec round trip
MaxPayloadLen == 2
\* number of frames fed through the stand-alone FrameReader
MaxFrames == 2
\* a pipe read may stop after this many bytes
ChunkStep == 5
\* PING frames the embedding program sends
MaxPings == 2
\* frames the workers emit on their own (events and errors), all workers together
MaxEvents == 2
\* pipe reads that return less than what is available
MaxPartialReads == 1
\* onMessage calls the embedding program makes
MaxSubscriptions == 2

(***************************************************************************)
(* src/ipc/protocol.ts: message types (wire values) and header size.       *)
(***************************************************************************)
INIT == 0
READY == 1
SHUTDOWN == 2
PING == 3
PONG == 4
ERROR == 5
ACK == 6
SURFACE_FULL == 16
SET_DATA == 32
CLEAR == 34
SELECTED == 48
CLICKED == 49
SUBMITTED == 50
KEY_PRESSED == 51
SCROLL_CHANGED == 52
RENDER_RESULT == 65
WIRING_UPDATE == 81

FRAME_HEADER_SIZE == 8

\* The members of enum MessageType the model uses (every group of the enum).
MessageType ==
  { INIT, READY, SHUTDOWN, PING, PONG, ERROR, ACK, SURFACE_FULL, SET_DATA,
    CLEAR, SELECTED, CLICKED, SUBMITTED, KEY_PRESSED, SCROLL_CHANGED,
    RENDER_RESULT, WIRING_UPDATE }

\* MessageType[header.type]: the enum's reverse mapping, value -> name
\* (undefined for a number that is no member).
MessageTypeName(t) ==
  CASE t = INIT -> "INIT"
    [] t = READY -> "READY"
    [] t = SHUTDOWN -> "SHUTDOWN"
    [] t = PING -> "PING"
    [] t = PONG -> "PONG"
    [] t = ERROR -> "ERROR"
    [] t = ACK -> "ACK"
    [] t = SURFACE_FULL -> "SURFACE_FULL"
    [] t = SET_DATA -> "SET_DATA"
    [] t = CLEAR -> "CLEAR"
    [] t = SELECTED -> "SELECTED"
    [] t = CLICKED -> "CLICKED"
    [] t = SUBMITTED -> "SUBMITTED"
    [] t = KEY_PRESSED -> "KEY_PRESSED"
    [] t = SCROLL_CHANGED -> "SCROLL_CHANGED"
    [] t = RENDER_RESULT -> "RENDER_RESULT"
    [] t = WIRING_UPDATE -> "WIRING_UPDATE"
    [] OTHER -> "undefined"

(***************************************************************************)
(* Byte-string helpers.                                                    *)
(***************************************************************************)
Min(a, b) == IF a < b THEN a ELSE b

\* Uint8Array.prototype.slice(from, to), 0-based, end exclusive, clamped.
Slice(b, from, to) ==
  LET t == Min(to, Len(b))
  IN IF from >= t THEN << >> ELSE SubSeq(b, from + 1, t)

\* All byte strings over alphabet S of length 0..n.
BytesUpTo(S, n) == UNION { [1..k -> S] : k \in 0..n }

\* DataView.setUint32(_, v, true): four bytes, least significant first.
U32LE(v) ==
  << v % 256, (v \div 256) % 256, (v \div 65536) % 256, (v \div 16777216) % 256 >>

\* DataView.setUint16(_, v, true): two bytes, least significant first.
U16LE(v) == << v % 256, (v \div 256) % 256 >>

(***************************************************************************)
(* src/ipc/frame.ts (src/src/surface/svi.ts:555-667): codec.               *)
(***************************************************************************)
\* A faulty variant of encodeFrame: seq written big-endian.
EncodeFrameSeqBigEndian(type, payload, flags, seq) ==
  U32LE(Len(payload)) \o << type % 256, flags % 256 >>
    \o << (seq \div 256) % 256, seq % 256 >> \o payload

\* encodeFrame: [length u32 LE][type u8][flags u8][seq u16 LE][payload].
encodeFrame(type, payload, flags, seq) ==
  U32LE(Len(payload)) \o << type % 256, flags % 256 >> \o U16LE(seq) \o payload

NoFrame == [null |-> TRUE]

\* decodeHeader: null when fewer than 8 bytes, else the four fields.
decodeHeader(data) ==
  IF Len(data) < FRAME_HEADER_SIZE THEN NoFrame
  ELSE [ length |-> data[1] + 256 * data[2] + 65536 * data[3] + 16777216 * data[4],
         type |-> data[5],
         flags |-> data[6],
         seq |-> data[7] + 256 * data[8] ]

\* decodeFrame: null on a short header or an incomplete payload.
decodeFrame(data) ==
  LET header == decodeHeader(data)
  IN IF header = NoFrame THEN NoFrame
     ELSE IF Len(data) < FRAME_HEADER_SIZE + header.length THEN NoFrame
     ELSE [ header |-> header,
            payload |-> Slice(data, FRAME_HEADER_SIZE, FRAME_HEADER_SIZE + header.length) ]

\* A faulty variant of FrameReader.read: the consumed frame is not removed whole (the
\* buffer keeps its last byte).
FrameReaderReadOffByOne(buffer) ==
  LET header == decodeHeader(buffer)
  IN IF header = NoFrame THEN [ frame |-> NoFrame, buffer |-> buffer ]
     ELSE LET frameSize == FRAME_HEADER_SIZE + header.length
          IN IF Len(buffer) < frameSize THEN [ frame |-> NoFrame, buffer |-> buffer ]
             ELSE [ frame |-> [ header |-> header,
                                payload |-> Slice(buffer, FRAME_HEADER_SIZE, frameSize) ],
                    buffer |-> Slice(buffer, frameSize - 1, Len(buffer)) ]

\* FrameReader.read on a buffer: the frame read (or null) and the buffer left.
FrameReaderRead(buffer) ==
  LET header == decodeHeader(buffer)
  IN IF header = NoFrame THEN [ frame |-> NoFrame, buffer |-> buffer ]
     ELSE LET frameSize == FRAME_HEADER_SIZE + header.length
          IN IF Len(buffer) < frameSize THEN [ frame |-> NoFrame, buffer |-> buffer ]
             ELSE [ frame |-> [ header |-> header,
                                payload |-> Slice(buffer, FRAME_HEADER_SIZE, frameSize) ],
                    buffer |-> Slice(buffer, frameSize, Len(buffer)) ]

\* FrameReader.readAll: read() until it returns null.
RECURSIVE FrameReaderReadAll(_)
FrameReaderReadAll(buffer) ==
  LET r == FrameReaderRead(buffer)
  IN IF r.frame = NoFrame THEN [ frames |-> << >>, buffer |-> buffer ]
     ELSE LET rest == FrameReaderReadAll(r.buffer)
          IN [ frames |-> << r.frame >> \o rest.frames, buffer |-> rest.buffer ]

\* FrameReader.append: the buffer followed by the new bytes.
FrameReaderAppend(buffer, data) == buffer \o data

(***************************************************************************)
(* JSON as far as the model needs it.  Payloads are drawn from the ASCII   *)
(* digits and '{'; over that alphabet a text is valid JSON exactly when it *)
(* is a JSON number: one digit, or several digits not starting with '0'.   *)
(* The two object literals the program itself stringifies are valid too.   *)
(***************************************************************************)
IsDigit(b) == b >= 48 /\ b <= 57

\* JSON.stringify({ reason: 'shutdown' }) as UTF-8.
ShutdownPayload ==
  << 123, 34, 114, 101, 97, 115, 111, 110, 34, 58, 34, 115, 104, 117, 116,
     100, 111, 119, 110, 34, 125 >>

\* Column ids are one ASCII letter: "A" = 65, ...
ColIdByte(c) == CASE c = "A" -> 65 [] c = "B" -> 66 [] c = "C" -> 67

\* JSON.stringify({ columnId }) as UTF-8.
ReadyPayload(c) ==
  << 123, 34, 99, 111, 108, 117, 109, 110, 73, 100, 34, 58, 34, ColIdByte(c), 34, 125 >>

\* TRUE iff JSON.parse(new TextDecoder().decode(payload)) returns (does not throw).
JsonParses(payload) ==
  \/ /\ Len(payload) >= 1
     /\ \A i \in 1..Len(payload) : IsDigit(payload[i])
     /\ (Len(payload) > 1 => payload[1] # 48)
  \/ payload = ShutdownPayload
  \/ \E c \in {"A", "B", "C"} : payload = ReadyPayload(c)

(***************************************************************************)
(* State.                                                                  *)
(***************************************************************************)
VARIABLES
  \* frame codec round trip (encodeFrame / decodeFrame as pure functions)
  cIn,          \* the input [type, payload, flags, seq]
  cFrame,       \* encodeFrame(cIn), once computed
  cOut,         \* decodeFrame(cFrame) or decodeFrame of a truncation of it
  cPc,          \* "input" | "encoded" | "decoded" | "truncated"
  \* a FrameReader fed a byte stream in chunks
  rdFrames,     \* the frames whose encodings are concatenated into the stream
  rdPos,        \* number of bytes of the stream appended so far
  rdBuf,        \* FrameReader.buffer
  rdOut,        \* every frame readAll() has returned so far, in order
  \* the Sixcol supervisor (main.ts)
  wiring,       \* config.wiring
  columns,      \* this.columns: the ids in insertion order
  ready,        \* ColumnProcess.ready
  rbuf,         \* ColumnProcess.reader (the FrameReader's buffer)
  reading,      \* readFromColumn(c): "none" | "live" | "eof" | "threw"
  threwOn,      \* for a read loop that ended by an exception: what threw
  messageHandlers, \* this.messageHandlers: key <<columnId, type>> -> handler
  handlerCalls, \* frames handed to a registered handler
  phase,        \* start(): "new" | "waiting" | "started" | "failed"
  timedOut,     \* Date.now() - start >= timeoutMs in waitForReady
  notReadyMsg,  \* the ids listed by the error waitForReady throws
  shPhase,      \* shutdown(): "idle" | "awaiting" | "done" | "failed"
  dir,          \* the socket directory: "none" | "exists" | "removed"
  errLog,       \* console.error lines of the supervisor
  nPings,       \* sendToColumn(.., PING, ..) calls made by the embedding program
  \* the pipes
  nPartial,     \* reads so far that returned only part of what was available
  outPipe,      \* worker stdout -> supervisor: bytes written and not yet read
  inPipe,       \* supervisor -> worker stdin: bytes written and not yet read
  \* the column workers (column/worker.ts)
  proc,         \* "none" | "running" | "exited"
  exitCode,     \* process exit code, -1 while there is none
  wpc,          \* "none" | "starting" | "reading"
  whandlers,    \* messageHandlers of the worker: the types with a handler
  wbuf,         \* stdinReader (the FrameReader's buffer)
  widgetData,   \* widgetData: the payload last parsed, << "null" >> for null
  \* history, for stating the claims
  stdinLog,     \* every byte the supervisor wrote into a worker's stdin pipe
  sentFrames,   \* the frames of those writes, one entry per sendToColumn call
  dispatched,   \* the frames handleColumnMessage was called with, per worker
  emitted,      \* the frames a worker wrote to stdout, in order
  wHandled,     \* the frames handleParentMessage was called with, per worker
  \* the library functions, one record per function under study: its
  \* arguments, how far the call has come (pc), and what it has computed
  arb,          \* enforceArbitrageFree / checkCalendarArbitrage on a surface
  tpl,          \* validateTemplate / loadTemplate on a parsed template
  proj,         \* a Projection under rotateProjection
  itp,          \* interpolate(surface, x, y, method)
  risk,         \* computeRiskMetrics(slope, nx, ny)
  ser,          \* serializeSurface / decodeFrame / deserializeSurface
  ras,          \* a RasterBuffer under setChar / rasterizeCubeFrame
  poll,         \* a polling source (createPollingSource) and its timers
  ws,           \* a WebSocket source (createWebSocketSource) and its sockets
  shell,        \* spawnShell: the child's two output streams and their readers
  unsubscribes  \* the functions onMessage has returned to the embedding program

codecVars == << cIn, cFrame, cOut, cPc >>
readerVars == << rdFrames, rdPos, rdBuf, rdOut >>
supVars ==
  << wiring, columns, ready, rbuf, reading, threwOn, messageHandlers, handlerCalls,
     phase, timedOut, notReadyMsg, shPhase, dir, errLog, nPings >>
pipeVars == << outPipe, inPipe, nPartial >>
workerVars == << proc, exitCode, wpc, whandlers, wbuf, widgetData >>
histVars == << stdinLog, sentFrames, dispatched, emitted, wHandled >>
sixcolVars == << supVars, pipeVars, workerVars, histVars >>
extVars == << ras, poll, ws, shell, unsubscribes >>
libVars == << arb, tpl, proj, itp, risk, ser, extVars >>
vars == << codecVars, readerVars, sixcolVars, libVars >>

\* No call of a library function is under way.
NotCalled == [ pc |-> "idle" ]
ExtIdle ==
  /\ ras = NotCalled /\ poll = NotCalled /\ ws = NotCalled /\ shell = NotCalled
  /\ unsubscribes = << >>

LibIdle ==
  /\ arb = NotCalled /\ tpl = NotCalled /\ proj = NotCalled
  /\ itp = NotCalled /\ risk = NotCalled /\ ser = NotCalled
  /\ ExtIdle

(***************************************************************************)
(* The frame codec as a pure function: encode, then decode (whole or cut). *)
(***************************************************************************)
CodecFlags == { 0, 1, 8, 255 }
CodecSeqs == { 0, 1, 255, 256, 65535 }
CodecBytes == { 0, 1, 255 }

CodecInputs ==
  [ type : MessageType, payload : BytesUpTo(CodecBytes, MaxPayloadLen),
    flags : CodecFlags, seq : CodecSeqs ]

CodecIdle ==
  /\ cIn = [ type |-> INIT, payload |-> << >>, flags |-> 0, seq |-> 0 ]
  /\ cFrame = << >>
  /\ cOut = NoFrame
  /\ cPc = "input"

CodecInit ==
  /\ cIn \in CodecInputs
  /\ cFrame = << >>
  /\ cOut = NoFrame
  /\ cPc = "input"

\* frame = encodeFrame(type, payload, flags, seq)
CodecEncode ==
  /\ cPc = "input"
  /\ cFrame' = encodeFrame(cIn.type, cIn.payload, cIn.flags, cIn.seq)
  /\ cPc' = "encoded"
  /\ UNCHANGED << cIn, cOut >>

\* decodeFrame(frame)
CodecDecode ==
  /\ cPc = "encoded"
  /\ cOut' = decodeFrame(cFrame)
  /\ cPc' = "decoded"
  /\ UNCHANGED << cIn, cFrame >>

\* decodeFrame(frame.slice(0, k)) for a proper prefix of the frame
CodecDecodeTruncated ==
  /\ cPc = "encoded"
  /\ \E k \in 0..(Len(cFrame) - 1) : cOut' = decodeFrame(Slice(cFrame, 0, k))
  /\ cPc' = "truncated"
  /\ UNCHANGED << cIn, cFrame >>

(***************************************************************************)
(* A FrameReader fed the concatenation of k encoded frames in chunks, with *)
(* readAll() called after every append.                                    *)
(***************************************************************************)
ReaderPayloads == { << >>, << 1 >>, << 0, 1 >> }
ReaderSeqs == { 0, 258 }
ReaderFrameSamples ==
  [ type : { PING, PONG }, payload : ReaderPayloads, flags : { 0 }, seq : ReaderSeqs ]

\* The bytes of the frames fs, encoded and concatenated.
RECURSIVE EncodeAll(_)
EncodeAll(fs) ==
  IF fs = << >> THEN << >>
  ELSE encodeFrame(Head(fs).type, Head(fs).payload, Head(fs).flags, Head(fs).seq)
         \o EncodeAll(Tail(fs))

ReaderIdle ==
  /\ rdFrames = << >>
  /\ rdPos = 0
  /\ rdBuf = << >>
  /\ rdOut = << >>

ReaderInit ==
  /\ rdFrames \in UNION { [1..k -> ReaderFrameSamples] : k \in 0..MaxFrames }
  /\ rdPos = 0
  /\ rdBuf = << >>
  /\ rdOut = << >>

\* reader.append(chunk); reader.readAll()  -- the next n bytes of the stream
ReaderAppend ==
  \E n \in 1..(Len(EncodeAll(rdFrames)) - rdPos) :
    LET chunk == SubSeq(EncodeAll(rdFrames), rdPos + 1, rdPos + n)
        ra == FrameReaderReadAll(FrameReaderAppend(rdBuf, chunk))
    IN /\ rdPos' = rdPos + n
       /\ rdBuf' = ra.buffer
       /\ rdOut' = rdOut \o ra.frames
       /\ UNCHANGED rdFrames

(***************************************************************************)
(* The Sixcol supervisor (src/main.ts, in src/src/render/render.test.ts    *)
(* from line 304) and its column workers (column/worker.ts).               *)
(***************************************************************************)
\* config.columns: the ids, in the order of the configuration
Cols == << "A", "B", "C" >>
ColIds == { Cols[i] : i \in 1..Len(Cols) }

Wire(src, event, dst, method) ==
  [ on |-> [ column |-> src, event |-> event ],
    do |-> [ column |-> dst, method |-> method ] ]

\* The wiring tables the model is run with.
WiringTables ==
  { << Wire("A", "SELECTED", "B", "SET_DATA") >>,
    << Wire("A", "SELECTED", "*", "SET_DATA") >>,
    << Wire("A", "SELECTED", "B", "SET_DATA"), Wire("C", "CLICKED", "B", "SET_DATA") >> }

\* The handlers the widgets of the workers register with onMessage (worker.ts):
\* none, or one worker with a handler of its own for one type.
NoHandlers == [ c \in ColIds |-> {} ]
HandlerAt(col, type) == [ c \in ColIds |-> IF c = col THEN { type } ELSE {} ]
WorkerHandlerSets == { NoHandlers, HandlerAt("B", PING), HandlerAt("C", SHUTDOWN) }

\* The worker whose process may end unexpectedly.
CrashCols == { "B" }

\* A pipe read returns what is available, or only its first ChunkStep bytes.
ReadSizes(avail) ==
  { avail } \cup { k \in { ChunkStep } : k < avail /\ nPartial < MaxPartialReads }

\* The part of the supervisor's state that dispatching a frame can change.
SupNow ==
  [ ready |-> ready, inPipe |-> inPipe, stdinLog |-> stdinLog,
    sentFrames |-> sentFrames, errLog |-> errLog, handlerCalls |-> handlerCalls,
    dispatched |-> << >>, threw |-> "none", threwOn |-> "none" ]

\* A faulty variant of sendToColumn: the frame is written without its payload.
sendToColumnHeaderOnly(st, columnId, type, payload, flags, seq, epipe) ==
  IF columnId \notin { columns[i] : i \in 1..Len(columns) }
  THEN [ st EXCEPT !.errLog = Append(@, [ col |-> columnId, what |-> "not found" ]) ]
  ELSE IF proc[columnId] # "running"
  THEN IF epipe THEN [ st EXCEPT !.threw = "write", !.threwOn = columnId ] ELSE st
  ELSE LET frame == Slice(encodeFrame(type, payload, flags, seq), 0, FRAME_HEADER_SIZE)
       IN [ st EXCEPT !.inPipe[columnId] = @ \o frame,
                      !.stdinLog[columnId] = @ \o frame,
                      !.sentFrames[columnId] =
                        Append(@, [ type |-> type, payload |-> payload,
                                    flags |-> flags, seq |-> seq ]) ]

\* sendToColumn.  A write to the stdin of a worker that has exited meets a
\* closed pipe: it throws (epipe) or the bytes are discarded.
sendToColumn(st, columnId, type, payload, flags, seq, epipe) ==
  IF columnId \notin { columns[i] : i \in 1..Len(columns) }
  THEN [ st EXCEPT !.errLog = Append(@, [ col |-> columnId, what |-> "not found" ]) ]
  ELSE IF proc[columnId] # "running"
  THEN IF epipe THEN [ st EXCEPT !.threw = "write", !.threwOn = columnId ] ELSE st
  ELSE LET frame == encodeFrame(type, payload, flags, seq)
       IN [ st EXCEPT !.inPipe[columnId] = @ \o frame,
                      !.stdinLog[columnId] = @ \o frame,
                      !.sentFrames[columnId] =
                        Append(@, [ type |-> type, payload |-> payload,
                                    flags |-> flags, seq |-> seq ]) ]

\* A faulty variant of the rule test of routeEvent: the source column is not compared.
WireMatchesAnySource(wire, sourceId, eventName) == wire.on.event = eventName

\* routeEvent: wire.on.column === sourceId && wire.on.event === eventName
WireMatches(wire, sourceId, eventName) ==
  wire.on.column = sourceId /\ wire.on.event = eventName

\* routeEvent: the rules from index i on, in table order; an exception ends it.
RECURSIVE RouteFrom(_, _, _, _, _, _)
RouteFrom(st, i, sourceId, header, payload, epipe) ==
  IF i > Len(wiring) \/ st.threw # "none" THEN st
  ELSE RouteFrom(
         IF WireMatches(wiring[i], sourceId, MessageTypeName(header.type))
         THEN sendToColumn(st, wiring[i].do.column, SET_DATA, payload, 0, 0, epipe)
         ELSE st,
         i + 1, sourceId, header, payload, epipe)

routeEvent(st, sourceId, header, payload, epipe) ==
  RouteFrom(st, 1, sourceId, header, payload, epipe)

\* handleColumnMessage
handleColumnMessage(st, columnId, header, payload, epipe) ==
  IF columnId \notin { columns[i] : i \in 1..Len(columns) } THEN st
  ELSE CASE header.type = READY -> [ st EXCEPT !.ready[columnId] = TRUE ]
         [] header.type = ERROR ->
              IF JsonParses(payload)
              THEN [ st EXCEPT !.errLog = Append(@, [ col |-> columnId, what |-> "error" ]) ]
              ELSE [ st EXCEPT !.threw = "parse", !.threwOn = columnId ]
         [] header.type \in { SELECTED, CLICKED, SUBMITTED } ->
              routeEvent(st, columnId, header, payload, epipe)
         [] OTHER ->
              IF << columnId, header.type >> \in DOMAIN messageHandlers
              THEN [ st EXCEPT !.handlerCalls =
                       Append(@, [ handler |-> messageHandlers[<< columnId, header.type >>],
                                   col |-> columnId, type |-> header.type,
                                   payload |-> payload ]) ]
              ELSE st

\* A faulty variant of the dispatch loop of readFromColumn: the frames of one readAll()
\* are handled last first.
RECURSIVE HandleAllReversed(_, _, _, _, _)
HandleAllReversed(st, columnId, frames, i, epipe) ==
  IF i > Len(frames) \/ st.threw # "none" THEN st
  ELSE LET f == frames[Len(frames) + 1 - i]
       IN HandleAllReversed(
            handleColumnMessage(
              [ st EXCEPT !.dispatched =
                  Append(@, [ type |-> f.header.type, payload |-> f.payload ]) ],
              columnId, f.header, f.payload, epipe),
            columnId, frames, i + 1, epipe)

\* readFromColumn: for (const { header, payload } of column.reader.readAll())
\*   this.handleColumnMessage(column.id, header, payload)
\* An exception leaves the loop (and the while loop around it).
RECURSIVE HandleAll(_, _, _, _, _)
HandleAll(st, columnId, frames, i, epipe) ==
  IF i > Len(frames) \/ st.threw # "none" THEN st
  ELSE HandleAll(
         handleColumnMessage(
           [ st EXCEPT !.dispatched =
               Append(@, [ type |-> frames[i].header.type, payload |-> frames[i].payload ]) ],
           columnId, frames[i].header, frames[i].payload, epipe),
         columnId, frames, i + 1, epipe)

\* Copy a dispatch result back into the supervisor's variables.
ApplySup(st) ==
  /\ ready' = st.ready
  /\ inPipe' = st.inPipe
  /\ stdinLog' = st.stdinLog
  /\ sentFrames' = st.sentFrames
  /\ errLog' = st.errLog
  /\ handlerCalls' = st.handlerCalls

EmptyPerCol == [ c \in ColIds |-> << >> ]
NullData == << "null" >>

SixcolInitWith(w, h) ==
  /\ wiring = w
  /\ columns = << >>
  /\ ready = [ c \in ColIds |-> FALSE ]
  /\ rbuf = EmptyPerCol
  /\ reading = [ c \in ColIds |-> "none" ]
  /\ threwOn = [ c \in ColIds |-> "none" ]
  /\ messageHandlers = << >>
  /\ handlerCalls = << >>
  /\ phase = "new"
  /\ timedOut = FALSE
  /\ notReadyMsg = << >>
  /\ shPhase = "idle"
  /\ dir = "none"
  /\ errLog = << >>
  /\ nPings = 0
  /\ outPipe = EmptyPerCol
  /\ inPipe = EmptyPerCol
  /\ nPartial = 0
  /\ proc = [ c \in ColIds |-> "none" ]
  /\ exitCode = [ c \in ColIds |-> -1 ]
  /\ wpc = [ c \in ColIds |-> "none" ]
  /\ whandlers = h
  /\ wbuf = EmptyPerCol
  /\ widgetData = [ c \in ColIds |-> NullData ]
  /\ stdinLog = EmptyPerCol
  /\ sentFrames = EmptyPerCol
  /\ dispatched = EmptyPerCol
  /\ emitted = EmptyPerCol
  /\ wHandled = EmptyPerCol

\* new Sixcol(config), for each wiring table and each set of worker widgets
SixcolInit == \E w \in WiringTables, h \in WorkerHandlerSets : SixcolInitWith(w, h)

SixcolIdle == SixcolInitWith(<< >>, NoHandlers)

\* The state in which start() returns: every worker spawned, its READY frame
\* emitted, read and dispatched, nothing else sent yet.
StartedWith(w, h) ==
  /\ wiring = w
  /\ columns = Cols
  /\ ready = [ c \in ColIds |-> TRUE ]
  /\ rbuf = EmptyPerCol
  /\ reading = [ c \in ColIds |-> "live" ]
  /\ threwOn = [ c \in ColIds |-> "none" ]
  /\ messageHandlers = << >>
  /\ handlerCalls = << >>
  /\ phase = "started"
  /\ timedOut = FALSE
  /\ notReadyMsg = << >>
  /\ shPhase = "idle"
  /\ dir = "exists"
  /\ errLog = << >>
  /\ nPings = 0
  /\ outPipe = EmptyPerCol
  /\ inPipe = EmptyPerCol
  /\ nPartial = 0
  /\ proc = [ c \in ColIds |-> "running" ]
  /\ exitCode = [ c \in ColIds |-> -1 ]
  /\ wpc = [ c \in ColIds |-> "reading" ]
  /\ whandlers = h
  /\ wbuf = EmptyPerCol
  /\ widgetData = [ c \in ColIds |-> NullData ]
  /\ stdinLog = EmptyPerCol
  /\ sentFrames = EmptyPerCol
  /\ dispatched = [ c \in ColIds |-> << [ type |-> READY, payload |-> ReadyPayload(c) ] >> ]
  /\ emitted =
       [ c \in ColIds |-> << [ type |-> READY, payload |-> ReadyPayload(c), seq |-> 0 ] >> ]
  /\ wHandled = EmptyPerCol

\* start() up to waitForReady: mkdir, then spawnColumn for every configured
\* column (the subprocess starts, readFromColumn starts reading its stdout).
Start ==
  /\ phase = "new"
  /\ dir' = "exists"
  /\ columns' = Cols
  /\ proc' = [ c \in ColIds |-> "running" ]
  /\ wpc' = [ c \in ColIds |-> "starting" ]
  /\ reading' = [ c \in ColIds |-> "live" ]
  /\ phase' = "waiting"
  /\ UNCHANGED << wiring, ready, rbuf, threwOn, messageHandlers, handlerCalls, timedOut,
                  notReadyMsg, shPhase, errLog, nPings, pipeVars, exitCode, whandlers,
                  wbuf, widgetData, histVars >>

\* A faulty variant of the test of waitForReady: some column ready instead of every.
AllReadySome == \E i \in 1..Len(columns) : ready[columns[i]]

\* waitForReady: Array.from(this.columns.values()).every((c) => c.ready)
AllReady == \A i \in 1..Len(columns) : ready[columns[i]]

\* waitForReady: the ids of the columns that are not ready, in map order
NotReady == SelectSeq(columns, LAMBDA c : ~ready[c])

\* The clock passes start + timeoutMs while start() is in waitForReady.
TimeoutElapses ==
  /\ phase = "waiting"
  /\ ~timedOut
  /\ timedOut' = TRUE
  /\ UNCHANGED << wiring, columns, ready, rbuf, reading, threwOn, messageHandlers,
                  handlerCalls, phase, notReadyMsg, shPhase, dir, errLog, nPings,
                  pipeVars, workerVars, histVars >>

\* One turn of the loop of waitForReady that ends it: the while test fails
\* (timeout: throw, listing the columns not ready) or every column is ready.
\* A turn that does neither sleeps 50 ms and changes nothing.
WaitForReady ==
  /\ phase = "waiting"
  /\ IF timedOut
     THEN phase' = "failed" /\ notReadyMsg' = NotReady
     ELSE AllReady /\ phase' = "started" /\ UNCHANGED notReadyMsg
  /\ UNCHANGED << wiring, columns, ready, rbuf, reading, threwOn, messageHandlers,
                  handlerCalls, timedOut, shPhase, dir, errLog, nPings,
                  pipeVars, workerVars, histVars >>

\* readFromColumn, one turn of its loop: reader.read() returns a chunk, the
\* chunk is appended, every complete frame is dispatched.
SupRead(c) ==
  /\ reading[c] = "live"
  /\ Len(outPipe[c]) > 0
  /\ \E n \in ReadSizes(Len(outPipe[c])), epipe \in BOOLEAN :
       LET chunk == SubSeq(outPipe[c], 1, n)
           ra == FrameReaderReadAll(FrameReaderAppend(rbuf[c], chunk))
           st == HandleAll(SupNow, c, ra.frames, 1, epipe)
       IN /\ outPipe' = [ outPipe EXCEPT ![c] = Slice(@, n, Len(@)) ]
          /\ nPartial' = IF n < Len(outPipe[c]) THEN nPartial + 1 ELSE nPartial
          /\ rbuf' = [ rbuf EXCEPT ![c] = ra.buffer ]
          /\ dispatched' = [ dispatched EXCEPT ![c] = @ \o st.dispatched ]
          /\ reading' = [ reading EXCEPT ![c] = IF st.threw = "none" THEN "live" ELSE "threw" ]
          /\ threwOn' = [ threwOn EXCEPT ![c] = IF st.threw = "none" THEN @
                                               ELSE << st.threw, st.threwOn >> ]
          /\ ApplySup(st)
  /\ UNCHANGED << wiring, columns, messageHandlers, phase, timedOut, notReadyMsg,
                  shPhase, dir, nPings, workerVars, emitted, wHandled >>

\* readFromColumn: reader.read() reports done (the worker's stdout is closed).
SupEof(c) ==
  /\ reading[c] = "live"
  /\ proc[c] = "exited"
  /\ Len(outPipe[c]) = 0
  /\ reading' = [ reading EXCEPT ![c] = "eof" ]
  /\ UNCHANGED << wiring, columns, ready, rbuf, threwOn, messageHandlers, handlerCalls,
                  phase, timedOut, notReadyMsg, shPhase, dir, errLog, nPings,
                  pipeVars, workerVars, histVars >>

\* The embedding program calls sendToColumn(c, PING, payload, 0, seq).
PingInputs == { [ payload |-> << 55 >>, seq |-> 258 ], [ payload |-> << >>, seq |-> 7 ] }

ClientPing(c) ==
  /\ phase # "new"
  /\ nPings < MaxPings
  /\ \E p \in PingInputs, epipe \in BOOLEAN :
       ApplySup(sendToColumn(SupNow, c, PING, p.payload, 0, p.seq, epipe))
  /\ nPings' = nPings + 1
  /\ UNCHANGED << wiring, columns, rbuf, reading, threwOn, messageHandlers, phase,
                  timedOut, notReadyMsg, shPhase, dir, outPipe, nPartial, workerVars,
                  dispatched, emitted, wHandled >>

\* broadcast: sendToColumn for every column of the map, in map order
RECURSIVE BroadcastFrom(_, _, _, _, _, _)
BroadcastFrom(st, i, type, payload, flags, epipe) ==
  IF i > Len(columns) \/ st.threw # "none" THEN st
  ELSE BroadcastFrom(sendToColumn(st, columns[i], type, payload, flags, 0, epipe),
                     i + 1, type, payload, flags, epipe)

broadcast(st, type, payload, flags, epipe) == BroadcastFrom(st, 1, type, payload, flags, epipe)

\* shutdown() up to its first await: broadcast SHUTDOWN.  An exception thrown
\* by a write rejects shutdown().
ShutdownBegin ==
  /\ phase # "new"
  /\ shPhase = "idle"
  /\ \E epipe \in BOOLEAN :
       LET st == broadcast(SupNow, SHUTDOWN, ShutdownPayload, 0, epipe)
       IN /\ ApplySup(st)
          /\ shPhase' = IF st.threw = "none" THEN "awaiting" ELSE "failed"
  /\ UNCHANGED << wiring, columns, rbuf, reading, threwOn, messageHandlers, phase,
                  timedOut, notReadyMsg, dir, nPings, outPipe, nPartial, workerVars,
                  dispatched, emitted, wHandled >>

\* A faulty variant of the wait of shutdown(): Promise.race instead of Promise.all.
AllExitedSome == \E i \in 1..Len(columns) : proc[columns[i]] = "exited"

\* shutdown(): await Promise.all(columns.map((col) => col.proc.exited))
AllExited == \A i \in 1..Len(columns) : proc[columns[i]] = "exited"

\* shutdown() after the await: rm(socketDir), "shutdown complete".
ShutdownFinish ==
  /\ shPhase = "awaiting"
  /\ AllExited
  /\ dir' = "removed"
  /\ shPhase' = "done"
  /\ UNCHANGED << wiring, columns, ready, rbuf, reading, threwOn, messageHandlers,
                  handlerCalls, phase, timedOut, notReadyMsg, errLog, nPings,
                  pipeVars, workerVars, histVars >>

(***************************************************************************)
(* The column worker (column/worker.ts, src/unnamed/part_013).             *)
(***************************************************************************)
\* The part of a worker's state that handling a frame can change: the bytes
\* and frames it writes to stdout, widgetData, and how the process stands.
WorkerNow(c) ==
  [ out |-> << >>, emitted |-> << >>, widgetData |-> widgetData[c],
    handled |-> << >>, exited |-> FALSE, threw |-> FALSE ]

\* sendToParent: Bun.write(Bun.stdout, encodeFrame(type, payload, flags, seq))
sendToParent(wst, type, payload, flags, seq) ==
  [ wst EXCEPT !.out = @ \o encodeFrame(type, payload, flags, seq),
               !.emitted = Append(@, [ type |-> type, payload |-> payload, seq |-> seq ]) ]

\* handleParentMessage, case PING
PongReply(wst, header, payload) == sendToParent(wst, PONG, payload, 0, header.seq)

\* handleParentMessage: a registered handler replaces the default handling.
handleParentMessage(wst, c, header, payload) ==
  IF header.type \in whandlers[c] THEN wst
  ELSE CASE header.type = INIT -> wst
         [] header.type = SHUTDOWN -> [ wst EXCEPT !.exited = TRUE ]
         [] header.type = PING -> PongReply(wst, header, payload)
         [] header.type = SET_DATA ->
              IF JsonParses(payload) THEN [ wst EXCEPT !.widgetData = payload ]
              ELSE [ wst EXCEPT !.threw = TRUE ]
         [] header.type = CLEAR -> [ wst EXCEPT !.widgetData = NullData ]
         [] OTHER -> wst

\* readStdin: for (const { header, payload } of stdinReader.readAll())
\*   handleParentMessage(header, payload)
\* process.exit and an exception both end the loop.
RECURSIVE WorkerHandleAll(_, _, _, _)
WorkerHandleAll(wst, c, frames, i) ==
  IF i > Len(frames) \/ wst.exited \/ wst.threw THEN wst
  ELSE WorkerHandleAll(
         handleParentMessage(
           [ wst EXCEPT !.handled =
               Append(@, [ type |-> frames[i].header.type, payload |-> frames[i].payload,
                           seq |-> frames[i].header.seq ]) ],
           c, frames[i].header, frames[i].payload),
         c, frames, i + 1)

\* main(): startSocketServer, then READY to the parent, then readStdin.
WorkerStart(c) ==
  /\ proc[c] = "running"
  /\ wpc[c] = "starting"
  /\ LET w == sendToParent(WorkerNow(c), READY, ReadyPayload(c), 0, 0)
     IN /\ outPipe' = [ outPipe EXCEPT ![c] = @ \o w.out ]
        /\ emitted' = [ emitted EXCEPT ![c] = @ \o w.emitted ]
  /\ wpc' = [ wpc EXCEPT ![c] = "reading" ]
  /\ UNCHANGED << supVars, inPipe, nPartial, proc, exitCode, whandlers, wbuf, widgetData,
                  stdinLog, sentFrames, dispatched, wHandled >>

\* The frames a worker's widget sends on its own with sendToParent.
WorkerEmitTypes == { SELECTED, CLICKED, ERROR }
IsOwnFrame(f) == f.type \in WorkerEmitTypes
NEvents(em) ==
  Len(SelectSeq(em["A"], IsOwnFrame)) + Len(SelectSeq(em["B"], IsOwnFrame))
    + Len(SelectSeq(em["C"], IsOwnFrame))

\* The payload of the k-th frame of worker c: two digits, worker and k.
ColDigit(c) == CASE c = "A" -> 49 [] c = "B" -> 50 [] c = "C" -> 51
EventPayload(c, k) == << ColDigit(c), 48 + k >>
\* The payload of an ERROR frame: the JSON text 1, or the text {
ErrorPayloads == { << 49 >>, << 123 >> }

\* The widget of worker c emits an event or an error: sendToParent(type, payload).
WorkerEmit(c) ==
  /\ proc[c] = "running"
  /\ wpc[c] = "reading"
  /\ NEvents(emitted) < MaxEvents
  /\ \E type \in WorkerEmitTypes :
       \E payload \in IF type = ERROR THEN ErrorPayloads
                      ELSE { EventPayload(c, Len(emitted[c])) } :
         LET w == sendToParent(WorkerNow(c), type, payload, 0, 0)
         IN /\ outPipe' = [ outPipe EXCEPT ![c] = @ \o w.out ]
            /\ emitted' = [ emitted EXCEPT ![c] = @ \o w.emitted ]
  /\ UNCHANGED << supVars, inPipe, nPartial, workerVars, stdinLog, sentFrames, dispatched, wHandled >>

\* readStdin, one turn of its loop.  shutdown() (on SHUTDOWN, or after the
\* catch of an exception) is process.exit(0).
WorkerRead(c) ==
  /\ proc[c] = "running"
  /\ wpc[c] = "reading"
  /\ Len(inPipe[c]) > 0
  /\ \E n \in ReadSizes(Len(inPipe[c])) :
       LET chunk == SubSeq(inPipe[c], 1, n)
           ra == FrameReaderReadAll(FrameReaderAppend(wbuf[c], chunk))
           w == WorkerHandleAll(WorkerNow(c), c, ra.frames, 1)
           dies == w.exited \/ w.threw
       IN /\ inPipe' = [ inPipe EXCEPT ![c] = IF dies THEN << >> ELSE Slice(@, n, Len(@)) ]
          /\ nPartial' = IF n < Len(inPipe[c]) THEN nPartial + 1 ELSE nPartial
          /\ wbuf' = [ wbuf EXCEPT ![c] = IF dies THEN << >> ELSE ra.buffer ]
          /\ outPipe' = [ outPipe EXCEPT ![c] = @ \o w.out ]
          /\ emitted' = [ emitted EXCEPT ![c] = @ \o w.emitted ]
          /\ wHandled' = [ wHandled EXCEPT ![c] = @ \o w.handled ]
          /\ widgetData' = [ widgetData EXCEPT ![c] = IF dies THEN NullData ELSE w.widgetData ]
          /\ proc' = [ proc EXCEPT ![c] = IF dies THEN "exited" ELSE @ ]
          /\ exitCode' = [ exitCode EXCEPT ![c] = IF dies THEN 0 ELSE @ ]
          /\ wpc' = [ wpc EXCEPT ![c] = IF dies THEN "none" ELSE @ ]
  /\ UNCHANGED << supVars, whandlers, stdinLog, sentFrames, dispatched >>

\* The worker process ends unexpectedly (killed, or main() rejects: exit 1).
WorkerCrash(c) ==
  /\ c \in CrashCols
  /\ proc[c] = "running"
  /\ proc' = [ proc EXCEPT ![c] = "exited" ]
  /\ exitCode' = [ exitCode EXCEPT ![c] = 1 ]
  /\ wpc' = [ wpc EXCEPT ![c] = "none" ]
  /\ wbuf' = [ wbuf EXCEPT ![c] = << >> ]
  /\ widgetData' = [ widgetData EXCEPT ![c] = NullData ]
  /\ inPipe' = [ inPipe EXCEPT ![c] = << >> ]
  /\ UNCHANGED << supVars, outPipe, nPartial, whandlers, histVars >>

(***************************************************************************)
(* surface/arbitrage.ts.  Numbers are decimal fixed point: the implied     *)
(* volatilities z and the tolerance in thousandths, the expiries x in      *)
(* whole years, the strikes y whole, total variances z*z*x in millionths.  *)
(***************************************************************************)
\* tolerance = 0.001, the default of every check
DefaultTolerance == 1

\* The largest maxIterations enforceArbitrageFree is called with.
ArbMaxIter == 2

\* Math.sqrt, rounded down to a whole number.
RECURSIVE ISqrtBetween(_, _, _)
ISqrtBetween(n, lo, hi) ==
  IF hi - lo <= 1 THEN lo
  ELSE LET mid == (lo + hi) \div 2
       IN IF mid * mid <= n THEN ISqrtBetween(n, mid, hi) ELSE ISqrtBetween(n, lo, mid)
ISqrt(n) == ISqrtBetween(n, 0, Min(n + 1, 46340))

\* violation > 0.01 ? 'severe' : violation > 0.005 ? 'moderate' : 'minor', the
\* violation (a difference of total variances) in millionths.
CalendarSeverity(violation) ==
  IF violation > 10000 THEN "severe" ELSE IF violation > 5000 THEN "moderate" ELSE "minor"

\* violation > 0.02 ? 'severe' : violation > 0.01 ? 'moderate' : 'minor', the
\* violation in halves of a thousandth.
ButterflySeverity(violation2) ==
  IF violation2 > 40 THEN "severe" ELSE IF violation2 > 20 THEN "moderate" ELSE "minor"

\* violation > 1.0 ? 'severe' : violation > 0.5 ? 'moderate' : 'minor', the
\* violation in thousandths.
VerticalSeverity(violation) ==
  IF violation > 1000 THEN "severe" ELSE IF violation > 500 THEN "moderate" ELSE "minor"

\* checkVerticalArbitrage, the end of the body of its loops, from the slope
\* dw_dk of the total variance (in thousandths) on: slopeLimit = 2.0.
VerticalAt(dw_dk) ==
  LET slopeLimit == 2000
      abs == IF dw_dk < 0 THEN -dw_dk ELSE dw_dk
  IN IF abs > slopeLimit
     THEN << [ type |-> "vertical", violation |-> abs - slopeLimit,
               severity |-> VerticalSeverity(abs - slopeLimit) ] >>
     ELSE << >>

\* checkCalendarArbitrage, the body of its loops for expiry pair (i, i+1) and
\* strike j (indices from 0): w2 < w1 - tolerance.
CalendarAt(s, tol, i, j) ==
  LET T1 == s.x[i + 1]
      T2 == s.x[i + 2]
      iv1 == s.z[i * s.ny + j + 1]
      iv2 == s.z[(i + 1) * s.ny + j + 1]
      w1 == iv1 * iv1 * T1
      w2 == iv2 * iv2 * T2
  IN IF w2 < w1 - tol * 1000
     THEN << [ type |-> "calendar", x1 |-> T1, x2 |-> T2, y |-> s.y[j + 1],
               violation |-> w1 - w2, severity |-> CalendarSeverity(w1 - w2) ] >>
     ELSE << >>

\* A faulty variant of checkCalendarArbitrage: the tolerance is not applied.
CheckCalendarNoTolerance(s, tol) ==
  LET Hit(k) ==
        LET i == k % (s.nx - 1)
            j == k \div (s.nx - 1)
        IN s.z[(i + 1) * s.ny + j + 1] * s.z[(i + 1) * s.ny + j + 1] * s.x[i + 2]
             < s.z[i * s.ny + j + 1] * s.z[i * s.ny + j + 1] * s.x[i + 1]
      At(k) == [ type |-> "calendar", x1 |-> s.x[(k % (s.nx - 1)) + 1],
                 x2 |-> s.x[(k % (s.nx - 1)) + 2], y |-> s.y[(k \div (s.nx - 1)) + 1],
                 violation |-> 0, severity |-> "minor" ]
      RECURSIVE From(_)
      From(k) == IF s.nx < 2 \/ k >= s.ny * (s.nx - 1) THEN << >>
                 ELSE (IF Hit(k) THEN << At(k) >> ELSE << >>) \o From(k + 1)
  IN From(0)

\* checkCalendarArbitrage: for j in 0..ny-1, for i in 0..nx-2, in that order.
RECURSIVE CalendarFrom(_, _, _)
CalendarFrom(s, tol, k) ==
  IF s.nx < 2 \/ k >= s.ny * (s.nx - 1) THEN << >>
  ELSE CalendarAt(s, tol, k % (s.nx - 1), k \div (s.nx - 1)) \o CalendarFrom(s, tol, k + 1)

checkCalendarArbitrage(s, tol) == CalendarFrom(s, tol, 0)

\* checkButterflyArbitrage, the body of its loops for expiry i and inner
\* strike j: (ivLeft + ivRight) / 2 - ivMid < -tolerance.  The violation is
\* kept doubled (in halves of a thousandth).
ButterflyAt(s, tol, i, j) ==
  LET ivLeft == s.z[i * s.ny + (j - 1) + 1]
      ivMid == s.z[i * s.ny + j + 1]
      ivRight == s.z[i * s.ny + (j + 1) + 1]
      butterfly2 == (ivLeft + ivRight) - 2 * ivMid
  IN IF butterfly2 < -(2 * tol)
     THEN << [ type |-> "butterfly", x1 |-> s.x[i + 1], y |-> s.y[j + 1],
               violation |-> -butterfly2, severity |-> ButterflySeverity(-butterfly2) ] >>
     ELSE << >>

\* checkButterflyArbitrage: for i in 0..nx-1, for j in 1..ny-2, in that order.
RECURSIVE ButterflyFrom(_, _, _)
ButterflyFrom(s, tol, k) ==
  IF s.ny < 3 \/ k >= s.nx * (s.ny - 2) THEN << >>
  ELSE ButterflyAt(s, tol, k \div (s.ny - 2), 1 + (k % (s.ny - 2)))
         \o ButterflyFrom(s, tol, k + 1)

checkButterflyArbitrage(s, tol) == ButterflyFrom(s, tol, 0)

\* checkAllArbitrage(surface, undefined, tolerance): without a forward the
\* vertical check is not run.
checkAllArbitrage(s, tol) ==
  LET calendarViolations == checkCalendarArbitrage(s, tol)
      butterflyViolations == checkButterflyArbitrage(s, tol)
      allViolations == calendarViolations \o butterflyViolations
  IN [ arbitrageFree |-> Len(allViolations) = 0,
       violations |-> allViolations,
       summary |-> [ calendar |-> Len(calendarViolations),
                     butterfly |-> Len(butterflyViolations),
                     vertical |-> 0,
                     total |-> Len(allViolations) ] ]

\* Array.findIndex(v => Math.abs(v - target) < 1e-6), from 0; -1 if none.
FindIndexOf(values, target) ==
  IF \E k \in 1..Len(values) : values[k] = target
  THEN (CHOOSE k \in 1..Len(values) :
          values[k] = target /\ \A m \in 1..(k - 1) : values[m] # target) - 1
  ELSE -1

\* enforceArbitrageFree, the correction of one calendar violation: the
\* far-dated volatility is raised by sqrt(violation / T2) * 0.5.
FixCalendar(s, z, v) ==
  LET j == FindIndexOf(s.y, v.y)
      hits == { i \in 0..(s.nx - 2) : s.x[i + 1] = v.x1 /\ s.x[i + 2] = v.x2 }
  IN IF j = -1 \/ hits = {} THEN z
     ELSE LET i == CHOOSE h \in hits : \A g \in hits : h <= g
              idx == (i + 1) * s.ny + j
          IN [ z EXCEPT ![idx + 1] = @ + ISqrt(v.violation \div (4 * s.x[i + 2])) ]

\* enforceArbitrageFree, the correction of one butterfly violation: the mid
\* volatility becomes the average of its neighbours as they are now.
FixButterfly(s, z, v) ==
  LET i == FindIndexOf(s.x, v.x1)
      j == FindIndexOf(s.y, v.y)
  IN IF i = -1 \/ j = -1 \/ j = 0 \/ j = s.ny - 1 THEN z
     ELSE [ z EXCEPT ![i * s.ny + j + 1] =
              (z[i * s.ny + (j - 1) + 1] + z[i * s.ny + (j + 1) + 1]) \div 2 ]

IsCalendar(v) == v.type = "calendar"
IsButterfly(v) == v.type = "butterfly"

RECURSIVE FixAllCalendar(_, _, _, _)
FixAllCalendar(s, z, vs, k) ==
  IF k > Len(vs) THEN z ELSE FixAllCalendar(s, FixCalendar(s, z, vs[k]), vs, k + 1)

RECURSIVE FixAllButterfly(_, _, _, _)
FixAllButterfly(s, z, vs, k) ==
  IF k > Len(vs) THEN z ELSE FixAllButterfly(s, FixButterfly(s, z, vs[k]), vs, k + 1)

\* A faulty variant of the loop body: it returns as soon as the calendar
\* check alone passes.
EnforceIterationCalendarOnly(s, z, tol) ==
  LET result == checkAllArbitrage([ s EXCEPT !.z = z ], tol)
  IN IF result.summary.calendar = 0 THEN [ done |-> TRUE, z |-> z ]
     ELSE [ done |-> FALSE,
            z |-> FixAllButterfly(s,
                    FixAllCalendar(s, z, SelectSeq(result.violations, IsCalendar), 1),
                    SelectSeq(result.violations, IsButterfly), 1) ]

\* enforceArbitrageFree, one turn of its loop: check; return when
\* arbitrage-free, else correct every calendar violation, then every
\* butterfly violation, in place.
EnforceIteration(s, z, tol) ==
  LET result == checkAllArbitrage([ s EXCEPT !.z = z ], tol)
  IN IF result.arbitrageFree THEN [ done |-> TRUE, z |-> z ]
     ELSE [ done |-> FALSE,
            z |-> FixAllButterfly(s,
                    FixAllCalendar(s, z, SelectSeq(result.violations, IsCalendar), 1),
                    SelectSeq(result.violations, IsButterfly), 1) ]

\* The surfaces under study: nx expiries 1, 2, .. and ny strikes 90, 100, ..,
\* every cell one of three volatilities (0.1, 0.2, 0.4).
ArbShapes == { << 2, 1 >>, << 1, 3 >>, << 2, 3 >>, << 3, 2 >> }
ArbVols == { 100, 200, 400 }
ArbTolerances == { DefaultTolerance, 25 }
ArbSurfaces ==
  UNION { [ nx : { sh[1] }, ny : { sh[2] },
            x : { [ i \in 1..sh[1] |-> i ] },
            y : { [ j \in 1..sh[2] |-> 80 + 10 * j ] },
            z : [ 1..(sh[1] * sh[2]) -> ArbVols ] ] : sh \in ArbShapes }

ArbInit ==
  arb \in [ pc : { "input" }, surface : ArbSurfaces, maxIter : 0..ArbMaxIter,
            tol : ArbTolerances, z : { << >> }, iter : { 0 }, cal : { << >> } ]

\* checkCalendarArbitrage(surface, tolerance)
ArbCheckCalendar ==
  /\ arb.pc = "input"
  /\ arb' = [ arb EXCEPT !.pc = "checked",
                         !.cal = checkCalendarArbitrage(arb.surface, arb.tol) ]

\* enforceArbitrageFree(surface, maxIter, tolerance): the copy of z.
ArbEnforceCall ==
  /\ arb.pc = "input"
  /\ arb' = [ arb EXCEPT !.pc = "loop", !.z = arb.surface.z, !.iter = 0 ]

\* for (let iter = 0; iter < maxIterations; iter++) { .. }: one turn.
ArbEnforceIterate ==
  /\ arb.pc = "loop"
  /\ arb.iter < arb.maxIter
  /\ LET r == EnforceIteration(arb.surface, arb.z, arb.tol)
     IN arb' = IF r.done THEN [ arb EXCEPT !.pc = "returned" ]
               ELSE [ arb EXCEPT !.z = r.z, !.iter = @ + 1 ]

\* The loop has run maxIterations times: return current, unchecked.
ArbEnforceExhausted ==
  /\ arb.pc = "loop"
  /\ arb.iter >= arb.maxIter
  /\ arb' = [ arb EXCEPT !.pc = "exhausted" ]

ArbOnlyInit ==
  /\ CodecIdle /\ ReaderIdle /\ SixcolIdle
  /\ ArbInit
  /\ tpl = NotCalled /\ proj = NotCalled /\ itp = NotCalled
  /\ risk = NotCalled /\ ser = NotCalled
  /\ ExtIdle

ArbNext ==
  \/ ArbCheckCalendar /\ UNCHANGED << codecVars, readerVars, sixcolVars, extVars, tpl, proj, itp, risk, ser >>
  \/ ArbEnforceCall /\ UNCHANGED << codecVars, readerVars, sixcolVars, extVars, tpl, proj, itp, risk, ser >>
  \/ ArbEnforceIterate /\ UNCHANGED << codecVars, readerVars, sixcolVars, extVars, tpl, proj, itp, risk, ser >>
  \/ ArbEnforceExhausted /\ UNCHANGED << codecVars, readerVars, sixcolVars, extVars, tpl, proj, itp, risk, ser >>

SpecArb == ArbOnlyInit /\ [][ArbNext]_vars

\* The three checks on surfaces of 2 expiries and 3 strikes whose total
\* variances and convexities fall below, on and above the severity
\* thresholds, and on slopes around the slope limit.
SevVols == { 0, 50, 70, 100, 110, 120 }
SevSlopes == { -3500, -2500, 0, 2000, 2400, 2500, 2700, 3000, 3500 }
SevSurfaces ==
  [ nx : { 2 }, ny : { 3 }, x : { << 1, 2 >> }, y : { << 90, 100, 110 >> },
    z : { z \in [ 1..6 -> SevVols ] : z[3] = 100 /\ z[5] \in { 100, 110, 120 } } ]

SevInit ==
  arb \in [ pc : { "input" }, surface : SevSurfaces, tol : { DefaultTolerance },
            dw_dk : SevSlopes, cal : { << >> }, fly : { << >> }, vert : { << >> } ]

\* checkCalendarArbitrage, checkButterflyArbitrage and the slope test of
\* checkVerticalArbitrage, as checkAllArbitrage runs them.
SevCheckAll ==
  /\ arb.pc = "input"
  /\ arb' = [ arb EXCEPT !.pc = "checked",
                         !.cal = checkCalendarArbitrage(arb.surface, arb.tol),
                         !.fly = checkButterflyArbitrage(arb.surface, arb.tol),
                         !.vert = VerticalAt(arb.dw_dk) ]

SevOnlyInit ==
  /\ CodecIdle /\ ReaderIdle /\ SixcolIdle
  /\ SevInit
  /\ tpl = NotCalled /\ proj = NotCalled /\ itp = NotCalled
  /\ risk = NotCalled /\ ser = NotCalled
  /\ ExtIdle

SevNext ==
  SevCheckAll /\ UNCHANGED << codecVars, readerVars, sixcolVars, extVars, tpl, proj, itp,
                              risk, ser >>

SpecSev == SevOnlyInit /\ [][SevNext]_vars

(***************************************************************************)
(* config/types.ts (src/unnamed/part_001): validateTemplate, and           *)
(* config/loader.ts: loadTemplate from the parsed value on.  A string that *)
(* is missing or empty is ""; isObject and isArray tell the kind of value. *)
(***************************************************************************)
\* The longest columns array and wiring array of the templates under study.
MaxColumns == 2
MaxWires == 2

\* validateTemplate, the loop over t.columns from column k on (from 1), with
\* the ids seen so far: << errors, columnIds >>.
RECURSIVE ValidateColumns(_, _, _)
ValidateColumns(cols, k, columnIds) ==
  IF k > Len(cols) THEN [ errors |-> << >>, columnIds |-> columnIds ]
  ELSE LET col == cols[k]
           idError ==
             IF col.id = "" THEN << << "Column must have an id string", "" >> >>
             ELSE IF col.id \in columnIds THEN << << "Duplicate column id", col.id >> >>
             ELSE << >>
           typeError ==
             IF col.type = "" THEN << << "Column must have a type string", "" >> >>
             ELSE << >>
           rest == ValidateColumns(cols, k + 1,
                     IF idError = << >> THEN columnIds \cup { col.id } ELSE columnIds)
       IN [ errors |-> idError \o typeError \o rest.errors, columnIds |-> rest.columnIds ]

\* validateTemplate, the loop over t.wiring from rule k on.
RECURSIVE ValidateWiring(_, _, _)
ValidateWiring(wires, k, columnIds) ==
  IF k > Len(wires) THEN << >>
  ELSE (IF wires[k].on.column \notin columnIds
        THEN << << "Wiring references unknown source column", wires[k].on.column >> >>
        ELSE << >>)
       \o (IF wires[k].do.column # "*" /\ wires[k].do.column \notin columnIds
           THEN << << "Wiring references unknown target column", wires[k].do.column >> >>
           ELSE << >>)
       \o ValidateWiring(wires, k + 1, columnIds)

\* A faulty variant of validateTemplate: wiring targets are not looked at.
ValidateTemplateSourcesOnly(template) ==
  IF ~template.isObject
  THEN [ valid |-> FALSE, errors |-> << << "Template must be an object", "" >> >> ]
  ELSE LET cols == ValidateColumns(template.columns.items, 1, {})
           errors ==
             IF ~template.columns.isArray THEN << >>
             ELSE cols.errors
                  \o (IF ~template.wiring.isArray THEN << >>
                      ELSE SelectSeq(ValidateWiring(template.wiring.items, 1, cols.columnIds),
                                     LAMBDA e : e[1] = "Wiring references unknown source column"))
       IN [ valid |-> Len(errors) = 0, errors |-> errors ]

\* validateTemplate
validateTemplate(template) ==
  IF ~template.isObject
  THEN [ valid |-> FALSE, errors |-> << << "Template must be an object", "" >> >> ]
  ELSE LET nameError ==
             IF template.name = "" THEN << << "Template must have a name string", "" >> >>
             ELSE << >>
           cols == ValidateColumns(template.columns.items, 1, {})
           errors ==
             nameError
             \o (IF ~template.columns.isArray
                 THEN << << "Template must have a columns array", "" >> >>
                 ELSE cols.errors
                      \o (IF ~template.wiring.isArray THEN << >>
                          ELSE ValidateWiring(template.wiring.items, 1, cols.columnIds)))
       IN [ valid |-> Len(errors) = 0, errors |-> errors ]

\* loadTemplate, once the file is parsed: validate, throw on an invalid
\* template (threw, with the errors as the message), else return the value.
loadTemplate(parsed) ==
  LET validation == validateTemplate(parsed)
  IN [ valid |-> validation.valid, errors |-> validation.errors,
       threw |-> ~validation.valid ]

\* The templates under study.
TplColumnConfigs ==
  [ id : { "a", "b", "" }, type : { "list" } ] \cup { [ id |-> "a", type |-> "" ] }
TplWires ==
  [ on : [ column : { "a", "z" }, event : { "SELECTED" } ],
    do : [ column : { "a", "z", "*" }, action : { "SET_DATA" } ] ]
TplArrays(S, n) ==
  { [ isArray |-> FALSE, items |-> << >> ] }
    \cup [ isArray : { TRUE }, items : UNION { [ 1..k -> S ] : k \in 0..n } ]
TplTemplates ==
  { [ isObject |-> FALSE, name |-> "", columns |-> [ isArray |-> FALSE, items |-> << >> ],
      wiring |-> [ isArray |-> FALSE, items |-> << >> ] ] }
    \cup [ isObject : { TRUE }, name : { "t", "" },
           columns : TplArrays(TplColumnConfigs, MaxColumns),
           wiring : TplArrays(TplWires, MaxWires) ]

TplInit ==
  tpl \in [ pc : { "input" }, template : TplTemplates,
            result : { [ valid |-> FALSE, errors |-> << >>, threw |-> FALSE ] } ]

\* validateTemplate(template)
TplValidate ==
  /\ tpl.pc = "input"
  /\ tpl' = [ tpl EXCEPT !.pc = "validated",
                         !.result = [ valid |-> validateTemplate(tpl.template).valid,
                                      errors |-> validateTemplate(tpl.template).errors,
                                      threw |-> FALSE ] ]

\* loadTemplate(path), from the parsed value on
TplLoad ==
  /\ tpl.pc = "input"
  /\ tpl' = [ tpl EXCEPT !.pc = "loaded", !.result = loadTemplate(tpl.template) ]

TplOnlyInit ==
  /\ CodecIdle /\ ReaderIdle /\ SixcolIdle
  /\ TplInit
  /\ arb = NotCalled /\ proj = NotCalled /\ itp = NotCalled
  /\ risk = NotCalled /\ ser = NotCalled
  /\ ExtIdle

TplNext ==
  \/ TplValidate /\ UNCHANGED << codecVars, readerVars, sixcolVars, extVars, arb, proj, itp, risk, ser >>
  \/ TplLoad /\ UNCHANGED << codecVars, readerVars, sixcolVars, extVars, arb, proj, itp, risk, ser >>

SpecTpl == TplOnlyInit /\ [][TplNext]_vars

(***************************************************************************)
(* render/project.ts: rotateProjection, angles in whole degrees.           *)
(***************************************************************************)
\* The longest sequence of rotations applied to one projection.
MaxRotations == 2

\* a % b of JavaScript for b > 0: the remainder has the sign of a.
JsRemainder(a, b) == IF a >= 0 THEN a % b ELSE -((-a) % b)

\* rotateProjection(proj, deltaAzimuth, deltaElevation)
rotateProjection(p, deltaAzimuth, deltaElevation) ==
  [ p EXCEPT
      !.azimuth = JsRemainder(p.azimuth + deltaAzimuth + 360, 360),
      !.elevation =
        LET e == Min(89, p.elevation + deltaElevation) IN IF e < -89 THEN -89 ELSE e ]

\* The projections and the deltas under study.
ProjAzimuths == { 0, 10, 350, 359 }
ProjElevations == { -89, 0, 80, 89 }
ProjDeltaAzimuths == { -725, -400, -360, -20, 0, 20, 45, 360, 725 }
ProjDeltaElevations == { -200, -20, 0, 30, 200 }

ProjInit ==
  proj \in [ pc : { "created" }, azimuth : ProjAzimuths, elevation : ProjElevations,
             rotations : { 0 } ]

\* proj = rotateProjection(proj, deltaAzimuth, deltaElevation)
ProjRotate ==
  /\ proj.pc \in { "created", "rotated" }
  /\ proj.rotations < MaxRotations
  /\ \E dAz \in ProjDeltaAzimuths, dEl \in ProjDeltaElevations :
       proj' = [ rotateProjection(proj, dAz, dEl) EXCEPT
                   !.pc = "rotated", !.rotations = proj.rotations + 1 ]

ProjOnlyInit ==
  /\ CodecIdle /\ ReaderIdle /\ SixcolIdle
  /\ ProjInit
  /\ arb = NotCalled /\ tpl = NotCalled /\ itp = NotCalled
  /\ risk = NotCalled /\ ser = NotCalled
  /\ ExtIdle

ProjNext ==
  ProjRotate /\ UNCHANGED << codecVars, readerVars, sixcolVars, extVars, arb, tpl, itp, risk, ser >>

SpecProj == ProjOnlyInit /\ [][ProjNext]_vars

(***************************************************************************)
(* surface/interpolate.ts.  Axes, grid values and query points are whole   *)
(* numbers; a result is the exact fraction num / den (den > 0).            *)
(***************************************************************************)
\* findIndex: the binary search between lo and hi.
RECURSIVE FindIndexBetween(_, _, _, _)
FindIndexBetween(values, target, lo, hi) ==
  IF ~(lo < hi - 1) THEN lo
  ELSE LET mid == (lo + hi) \div 2
       IN IF values[mid + 1] <= target THEN FindIndexBetween(values, target, mid, hi)
          ELSE FindIndexBetween(values, target, lo, mid)

\* findIndex(values, target)
findIndex(values, target) ==
  LET n == Len(values)
  IN IF n = 0 THEN -1
     ELSE IF target <= values[1] THEN 0
     ELSE IF target >= values[n] THEN n - 2
     ELSE FindIndexBetween(values, target, 0, n - 1)

\* Math.max(lo, Math.min(v, hi))
ClampIndex(v, lo, hi) == IF Min(v, hi) < lo THEN lo ELSE Min(v, hi)

\* bilinearInterpolate(surface, x, y); lerp(a, b, t) = a + (b - a) * t with
\* t = tn / td is (a * td + (b - a) * tn) / td.
bilinearInterpolate(s, x, y) ==
  LET x0 == ClampIndex(findIndex(s.x, x), 0, s.nx - 2)
      x1 == x0 + 1
      y0 == ClampIndex(findIndex(s.y, y), 0, s.ny - 2)
      y1 == y0 + 1
      z00 == s.z[x0 * s.ny + y0 + 1]
      z01 == s.z[x0 * s.ny + y1 + 1]
      z10 == s.z[x1 * s.ny + y0 + 1]
      z11 == s.z[x1 * s.ny + y1 + 1]
      xRange == s.x[x1 + 1] - s.x[x0 + 1]
      yRange == s.y[y1 + 1] - s.y[y0 + 1]
      txn == IF xRange # 0 THEN x - s.x[x0 + 1] ELSE 0
      txd == IF xRange # 0 THEN xRange ELSE 1
      tyn == IF yRange # 0 THEN y - s.y[y0 + 1] ELSE 0
      tyd == IF yRange # 0 THEN yRange ELSE 1
      z0 == z00 * tyd + (z01 - z00) * tyn
      z1 == z10 * tyd + (z11 - z10) * tyn
  IN [ num |-> z0 * txd + (z1 - z0) * txn, den |-> tyd * txd ]

\* cubicInterpolate(p0, p1, p2, p3, t) for t = tn / td, times 2 * td^3.
cubicInterpolate(p0, p1, p2, p3, tn, td) ==
  2 * p1 * td * td * td
    + (-p0 + p2) * tn * td * td
    + (2 * p0 - 5 * p1 + 4 * p2 - p3) * tn * tn * td
    + (-p0 + 3 * p1 - 3 * p2 + p3) * tn * tn * tn

\* bicubicInterpolate(surface, x, y)
bicubicInterpolate(s, x, y) ==
  LET x1 == ClampIndex(findIndex(s.x, x), 1, s.nx - 3)
      y1 == ClampIndex(findIndex(s.y, y), 1, s.ny - 3)
      getZ(i, j) == s.z[ClampIndex(i, 0, s.nx - 1) * s.ny + ClampIndex(j, 0, s.ny - 1) + 1]
      xRange == s.x[x1 + 2] - s.x[x1 + 1]
      yRange == s.y[y1 + 2] - s.y[y1 + 1]
      txn == IF xRange # 0 THEN x - s.x[x1 + 1] ELSE 0
      txd == IF xRange # 0 THEN xRange ELSE 1
      tyn == IF yRange # 0 THEN y - s.y[y1 + 1] ELSE 0
      tyd == IF yRange # 0 THEN yRange ELSE 1
      col(i) == cubicInterpolate(getZ(x1 + i, y1 - 1), getZ(x1 + i, y1),
                                 getZ(x1 + i, y1 + 1), getZ(x1 + i, y1 + 2), tyn, tyd)
  IN [ num |-> cubicInterpolate(col(-1), col(0), col(1), col(2), txn, txd),
       den |-> (2 * tyd * tyd * tyd) * (2 * txd * txd * txd) ]

\* nearestInterpolate: the first index at the least distance, per axis.
NearestIndex(values, target) ==
  LET dist(k) == IF values[k] >= target THEN values[k] - target ELSE target - values[k]
  IN (CHOOSE k \in 1..Len(values) :
        /\ \A m \in 1..Len(values) : dist(k) <= dist(m)
        /\ \A m \in 1..(k - 1) : dist(m) > dist(k)) - 1

nearestInterpolate(s, x, y) ==
  [ num |-> s.z[NearestIndex(s.x, x) * s.ny + NearestIndex(s.y, y) + 1], den |-> 1 ]

\* interpolate(surface, x, y, method)
interpolate(s, x, y, method) ==
  CASE method = "bicubic" -> bicubicInterpolate(s, x, y)
    [] method = "nearest" -> nearestInterpolate(s, x, y)
    [] OTHER -> bilinearInterpolate(s, x, y)

\* The surfaces under study: 3 or 4 points on x (unevenly spaced), 3 on y;
\* a flat, a tilted and a curved grid.  The queries go beyond the axes on
\* every side.
ItpSurfaces ==
  { [ nx |-> Len(ax), ny |-> 3, x |-> ax, y |-> << 0, 2, 3 >>,
      z |-> [ k \in 1..(Len(ax) * 3) |->
                LET i == (k - 1) \div 3
                    j == (k - 1) % 3
                IN CASE shape = "flat" -> 2
                     [] shape = "tilted" -> i + 2 * j
                     [] OTHER -> i * i + j ] ] :
    ax \in { << 0, 1, 3 >>, << 0, 1, 3, 4 >> }, shape \in { "flat", "tilted", "curved" } }
ItpQueriesX == -1..5
ItpQueriesY == -1..4
ItpMethods == { "bilinear", "bicubic", "nearest" }

ItpInit ==
  itp \in [ pc : { "input" }, surface : ItpSurfaces, x : ItpQueriesX, y : ItpQueriesY,
            method : ItpMethods, result : { [ num |-> 0, den |-> 1 ] } ]

\* interpolate(surface, x, y, method)
ItpInterpolate ==
  /\ itp.pc = "input"
  /\ itp' = [ itp EXCEPT !.pc = "returned",
                         !.result = interpolate(itp.surface, itp.x, itp.y, itp.method) ]

ItpOnlyInit ==
  /\ CodecIdle /\ ReaderIdle /\ SixcolIdle
  /\ ItpInit
  /\ arb = NotCalled /\ tpl = NotCalled /\ proj = NotCalled
  /\ risk = NotCalled /\ ser = NotCalled
  /\ ExtIdle

ItpNext ==
  ItpInterpolate /\ UNCHANGED << codecVars, readerVars, sixcolVars, extVars, arb, tpl, proj, risk, ser >>

SpecItp == ItpOnlyInit /\ [][ItpNext]_vars

(***************************************************************************)
(* render/project.ts: computeRiskMetrics.  Its numbers are binary floating *)
(* point: every operation rounds its exact result to the nearest number    *)
(* with FloatBits significant bits (ties to even).  A number is held as a  *)
(* whole count of units of 2^-FloatFraction.                               *)
(***************************************************************************)
\* The significant bits of a number and the bits after the binary point.
FloatBits == 8
FloatFraction == 10
\* The most cells of a slope field under study.
RiskMaxCells == 3

FloatOne == 2 ^ FloatFraction

\* num / den (num >= 0, den > 0) to the nearest whole number, ties to even.
RoundNearestEven(num, den) ==
  LET q == num \div den
      r == num % den
  IN IF 2 * r > den \/ (2 * r = den /\ q % 2 = 1) THEN q + 1 ELSE q

\* The least e >= 0 with a / den < 2^(FloatBits + e).
RECURSIVE FloatExponent(_, _, _)
FloatExponent(a, den, e) ==
  IF a >= (2 ^ FloatBits) * den * (2 ^ e) THEN FloatExponent(a, den, e + 1) ELSE e

\* The floating-point number nearest to num / den units (den > 0).
FloatRound(num, den) ==
  LET a == IF num < 0 THEN -num ELSE num
      e == FloatExponent(a, den, 0)
      r == RoundNearestEven(a, den * (2 ^ e)) * (2 ^ e)
  IN IF num < 0 THEN -r ELSE r

\* a + b, a * b, a / b (b > 0), a / n for a count n, and a decimal literal.
FloatAdd(a, b) == FloatRound(a + b, 1)
FloatMul(a, b) == FloatRound(a * b, FloatOne)
FloatDiv(a, b) == FloatRound(a * FloatOne, b)
FloatDivCount(a, n) == FloatRound(a, n)
FloatLiteral(num, den) == FloatRound(num * FloatOne, den)

\* Math.sqrt: NaN for a negative number.
FloatSqrt(a) ==
  IF a < 0 THEN [ nan |-> TRUE, v |-> 0 ]
  ELSE [ nan |-> FALSE, v |-> FloatRound((ISqrt(4 * a * FloatOne) + 1) \div 2, 1) ]

\* computeRiskMetrics, the first loop from cell i on: the running maxSlope,
\* sumSlope, sumSlopeSq and sumTermSlope.
RECURSIVE RiskSums(_, _, _)
RiskSums(slope, i, acc) ==
  IF i > Len(slope.magnitude) THEN acc
  ELSE LET mag == slope.magnitude[i]
       IN RiskSums(slope, i + 1,
            [ maxSlope |-> IF mag > acc.maxSlope THEN mag ELSE acc.maxSlope,
              sumSlope |-> FloatAdd(acc.sumSlope, mag),
              sumSlopeSq |-> FloatAdd(acc.sumSlopeSq, FloatMul(mag, mag)),
              sumTermSlope |-> FloatAdd(acc.sumTermSlope, slope.dz_dx[i]) ])

\* computeRiskMetrics, the second loop from cell idx = i * ny + j on: a cell
\* goes to highRiskZones when mag >= threshold, else to flatZones when
\* mag <= flatThreshold.
RECURSIVE RiskZones(_, _, _, _, _, _)
RiskZones(slope, ny, threshold, flatThreshold, idx, acc) ==
  IF idx > Len(slope.magnitude) THEN acc
  ELSE LET mag == slope.magnitude[idx]
           xi == (idx - 1) \div ny
           yi == (idx - 1) % ny
       IN RiskZones(slope, ny, threshold, flatThreshold, idx + 1,
            IF mag >= threshold
            THEN [ acc EXCEPT !.highRiskZones =
                     Append(@, [ xi |-> xi, yi |-> yi, magnitude |-> mag ]) ]
            ELSE IF mag <= flatThreshold
            THEN [ acc EXCEPT !.flatZones = Append(@, [ xi |-> xi, yi |-> yi ]) ]
            ELSE acc)

\* highRiskZones.sort((a, b) => b.magnitude - a.magnitude): stable, by
\* magnitude descending.
RECURSIVE SortByMagnitudeDesc(_)
SortByMagnitudeDesc(zones) ==
  IF Len(zones) <= 1 THEN zones
  ELSE LET sorted == SortByMagnitudeDesc(SubSeq(zones, 1, Len(zones) - 1))
           last == zones[Len(zones)]
           before == Cardinality({ k \in 1..Len(sorted) : sorted[k].magnitude >= last.magnitude })
       IN SubSeq(sorted, 1, before) \o << last >> \o SubSeq(sorted, before + 1, Len(sorted))

\* Array.prototype.slice(0, count)
SliceFirst(seq, count) == SubSeq(seq, 1, Min(count, Len(seq)))

\* computeRiskMetrics(slope, nx, ny): the statistics and the risk score.
\* Math.min(1, NaN), NaN * 0.3 and a sum with NaN are NaN.
computeRiskMetrics(slope, nx, ny) ==
  LET n == Len(slope.magnitude)
      sums == RiskSums(slope, 1, [ maxSlope |-> 0, sumSlope |-> 0, sumSlopeSq |-> 0,
                                   sumTermSlope |-> 0 ])
      avgSlope == FloatDivCount(sums.sumSlope, n)
      slopeVariance ==
        FloatAdd(FloatDivCount(sums.sumSlopeSq, n), -FloatMul(avgSlope, avgSlope))
      normalizedMax == Min(FloatOne, FloatDiv(sums.maxSlope, FloatLiteral(2, 1)))
      root == FloatSqrt(slopeVariance)
      normalizedVar == Min(FloatOne, FloatDiv(root.v, FloatLiteral(1, 2)))
      term == FloatDivCount(sums.sumTermSlope, n)
      normalizedTerm ==
        Min(FloatOne, FloatDiv(IF term < 0 THEN -term ELSE term, FloatLiteral(1, 2)))
      threshold == FloatMul(sums.maxSlope, FloatLiteral(7, 10))
      flatThreshold == FloatMul(sums.maxSlope, FloatLiteral(1, 10))
      zones == RiskZones(slope, ny, threshold, flatThreshold, 1,
                         [ highRiskZones |-> << >>, flatZones |-> << >> ])
  IN [ maxSlope |-> sums.maxSlope,
       avgSlope |-> avgSlope,
       slopeVariance |-> slopeVariance,
       highRiskZones |-> SliceFirst(SortByMagnitudeDesc(zones.highRiskZones), 10),
       flatZones |-> SliceFirst(zones.flatZones, 10),
       riskScore |->
         IF root.nan THEN [ nan |-> TRUE, v |-> 0 ]
         ELSE [ nan |-> FALSE,
                v |-> FloatAdd(FloatAdd(FloatMul(normalizedMax, FloatLiteral(4, 10)),
                                        FloatMul(normalizedVar, FloatLiteral(3, 10))),
                               FloatMul(normalizedTerm, FloatLiteral(3, 10))) ] ]

\* The slope fields under study: 1 x n cells, magnitudes 0, 0.41 and 3,
\* dz/dx -0.41, 0 and 3, dz/dy 0.
RiskMagnitudes == { 0, FloatLiteral(41, 100), FloatLiteral(3, 1) }
RiskTermSlopes == { -FloatLiteral(41, 100), 0, FloatLiteral(3, 1) }
RiskSlopes ==
  UNION { [ magnitude : [ 1..n -> RiskMagnitudes ], dz_dx : [ 1..n -> RiskTermSlopes ],
            dz_dy : { [ i \in 1..n |-> 0 ] } ] : n \in 1..RiskMaxCells }

RiskInit ==
  risk \in [ pc : { "input" }, slope : RiskSlopes,
             result : { [ maxSlope |-> 0, avgSlope |-> 0, slopeVariance |-> 0,
                          highRiskZones |-> << >>, flatZones |-> << >>,
                          riskScore |-> [ nan |-> FALSE, v |-> 0 ] ] } ]

\* computeRiskMetrics(slope, 1, slope.magnitude.length)
RiskCompute ==
  /\ risk.pc = "input"
  /\ risk' = [ risk EXCEPT
                 !.pc = "returned",
                 !.result = computeRiskMetrics(risk.slope, 1, Len(risk.slope.magnitude)) ]

RiskOnlyInit ==
  /\ CodecIdle /\ ReaderIdle /\ SixcolIdle
  /\ RiskInit
  /\ arb = NotCalled /\ tpl = NotCalled /\ proj = NotCalled
  /\ itp = NotCalled /\ ser = NotCalled
  /\ ExtIdle

RiskNext ==
  RiskCompute /\ UNCHANGED << codecVars, readerVars, sixcolVars, extVars, arb, tpl, proj, itp, ser >>

SpecRisk == RiskOnlyInit /\ [][RiskNext]_vars

(***************************************************************************)
(* src/ipc/serialize.ts (src/unnamed/part_008:13-130): Surface wire format.*)
(* A double is [neg, m, e], the value (-1)^neg * m * 2^e with m a natural, *)
(* kept canonical (m odd, or m = 0 and e = 0).  A string is the sequence   *)
(* of its code points.                                                     *)
(***************************************************************************)
Float32Mantissa == 24
Float32Bias == 127

RECURSIVE BitLength(_)
BitLength(m) == IF m = 0 THEN 0 ELSE 1 + BitLength(m \div 2)

RECURSIVE Canon(_)
Canon(v) ==
  IF v.m = 0 THEN [ neg |-> v.neg, m |-> 0, e |-> 0 ]
  ELSE IF v.m % 2 = 0 THEN Canon([ neg |-> v.neg, m |-> v.m \div 2, e |-> v.e + 1 ])
  ELSE v

\* f32View[i] = v: the double is rounded to 24 significant bits, ties to
\* even (exponents of the inputs stay in the normal range of f32).
fround(v) ==
  LET L == BitLength(v.m)
      shift == L - Float32Mantissa
      q == v.m \div (2 ^ shift)
      r == v.m % (2 ^ shift)
      half == 2 ^ (shift - 1)
      up == r > half \/ (r = half /\ q % 2 = 1)
  IN IF L <= Float32Mantissa THEN Canon(v)
     ELSE Canon([ neg |-> v.neg, m |-> IF up THEN q + 1 ELSE q, e |-> v.e + shift ])

\* The four bytes of an f32 in memory (little-endian): sign bit, 8 bits of
\* biased exponent, 23 bits of fraction.
Float32Bytes(f) ==
  LET L == BitLength(f.m)
      q == f.m * (2 ^ (Float32Mantissa - L))
      biased == f.e - (Float32Mantissa - L) + (Float32Mantissa - 1) + Float32Bias
      frac == q - 2 ^ (Float32Mantissa - 1)
      sign == IF f.neg THEN 128 ELSE 0
  IN IF f.m = 0 THEN << 0, 0, 0, sign >>
     ELSE << frac % 256, (frac \div 256) % 256,
             (frac \div 65536) + 128 * (biased % 2), sign + (biased \div 2) >>

NonFinite == [ neg |-> FALSE, m |-> 0, e |-> 1 ]

\* The f32 read back from four bytes of memory.
Float32FromBytes(b) ==
  LET neg == b[4] >= 128
      biased == (b[4] % 128) * 2 + (b[3] \div 128)
      frac == (b[3] % 128) * 65536 + b[2] * 256 + b[1]
  IN IF biased = 255 THEN NonFinite
     ELSE IF biased = 0
       THEN Canon([ neg |-> neg, m |-> frac, e |-> 1 - Float32Bias - (Float32Mantissa - 1) ])
     ELSE Canon([ neg |-> neg, m |-> frac + 2 ^ (Float32Mantissa - 1),
                  e |-> biased - Float32Bias - (Float32Mantissa - 1) ])

\* The concatenation of the sequences ss[lo..hi], by halves.
RECURSIVE FlattenRange(_, _, _)
FlattenRange(ss, lo, hi) ==
  IF lo > hi THEN << >>
  ELSE IF lo = hi THEN ss[lo]
  ELSE FlattenRange(ss, lo, (lo + hi) \div 2) \o FlattenRange(ss, (lo + hi) \div 2 + 1, hi)

Flatten(ss) == FlattenRange(ss, 1, Len(ss))

\* f32View[f32Offset++] = values[i], for every i.
Float32ArrayBytes(values) ==
  Flatten([ i \in 1..Len(values) |-> Float32Bytes(fround(values[i])) ])

\* new Float32Array(buffer, offset, count) read as values.
Float32ArrayRead(bytes, offset, count) ==
  [ i \in 1..count |-> Float32FromBytes(SubSeq(bytes, offset + 4 * (i - 1) + 1, offset + 4 * i)) ]

\* new TextEncoder().encode(str): UTF-8, one byte below U+0080, two below U+0800.
Utf8Encode(str) ==
  Flatten([ i \in 1..Len(str) |->
              IF str[i] < 128 THEN << str[i] >>
              ELSE << 192 + (str[i] \div 64), 128 + (str[i] % 64) >> ])

IsUtf8Lead(b) == b >= 194 /\ b < 224
IsUtf8Continuation(b) == b >= 128 /\ b < 192

\* new TextDecoder().decode(bytes), for sequences of at most two bytes: a
\* lead byte with its continuation is one character, the continuation
\* itself none, and U+FFFD replaces any other byte above 127.
Utf8Decode(bytes) ==
  Flatten([ i \in 1..Len(bytes) |->
              IF bytes[i] < 128 THEN << bytes[i] >>
              ELSE IF IsUtf8Lead(bytes[i]) /\ i < Len(bytes)
                      /\ IsUtf8Continuation(bytes[i + 1])
                THEN << (bytes[i] - 192) * 64 + (bytes[i + 1] - 128) >>
              ELSE IF IsUtf8Continuation(bytes[i]) /\ i > 1 /\ IsUtf8Lead(bytes[i - 1])
                THEN << >>
              ELSE << 65533 >> ])

\* JSON.stringify of a string: quotes, with '"', '\' and line feed escaped.
JsonQuoteChars(str) ==
  Flatten([ i \in 1..Len(str) |->
              CASE str[i] = 34 -> << 92, 34 >>
                [] str[i] = 92 -> << 92, 92 >>
                [] str[i] = 10 -> << 92, 110 >>
                [] OTHER -> << str[i] >> ])

JsonQuote(str) == << 34 >> \o JsonQuoteChars(str) \o << 34 >>

\* JSON.stringify of a natural number: its decimal digits.
RECURSIVE JsonNumber(_)
JsonNumber(n) ==
  IF n < 10 THEN << 48 + n >> ELSE JsonNumber(n \div 10) \o << 48 + (n % 10) >>

JsonPair(d) == << 91 >> \o JsonNumber(d[1]) \o << 44 >> \o JsonNumber(d[2]) \o << 93 >>

KeyXLabel == << 120, 76, 97, 98, 101, 108 >>
KeyYLabel == << 121, 76, 97, 98, 101, 108 >>
KeyZLabel == << 122, 76, 97, 98, 101, 108 >>
KeyXDomain == << 120, 68, 111, 109, 97, 105, 110 >>
KeyYDomain == << 121, 68, 111, 109, 97, 105, 110 >>
KeyZDomain == << 122, 68, 111, 109, 97, 105, 110 >>
KeyTimestamp == << 116, 105, 109, 101, 115, 116, 97, 109, 112 >>

\* JSON.stringify({xLabel, yLabel, zLabel, xDomain, yDomain, zDomain, timestamp})
StringifyMeta(meta) ==
  << 123 >> \o JsonQuote(KeyXLabel) \o << 58 >> \o JsonQuote(meta.xLabel)
    \o << 44 >> \o JsonQuote(KeyYLabel) \o << 58 >> \o JsonQuote(meta.yLabel)
    \o << 44 >> \o JsonQuote(KeyZLabel) \o << 58 >> \o JsonQuote(meta.zLabel)
    \o << 44 >> \o JsonQuote(KeyXDomain) \o << 58 >> \o JsonPair(meta.xDomain)
    \o << 44 >> \o JsonQuote(KeyYDomain) \o << 58 >> \o JsonPair(meta.yDomain)
    \o << 44 >> \o JsonQuote(KeyZDomain) \o << 58 >> \o JsonPair(meta.zDomain)
    \o << 44 >> \o JsonQuote(KeyTimestamp) \o << 58 >> \o JsonNumber(meta.timestamp)
    \o << 125 >>

\* JSON.parse, for text without white space whose values are strings,
\* naturals and arrays of naturals.  Every parser returns [ok, val, next]:
\* val is [str, num, arr] and next the position after the value.
JsonFail == [ ok |-> FALSE, val |-> [ str |-> << >>, num |-> 0, arr |-> << >> ], next |-> 0 ]

JsonVal(s, n, a, next) ==
  [ ok |-> TRUE, val |-> [ str |-> s, num |-> n, arr |-> a ], next |-> next ]

\* The characters of a string literal after its opening quote.
RECURSIVE ParseStringFrom(_, _, _)
ParseStringFrom(t, i, acc) ==
  IF i > Len(t) THEN JsonFail
  ELSE IF t[i] = 34 THEN JsonVal(acc, 0, << >>, i + 1)
  ELSE IF t[i] = 92
    THEN IF i + 1 > Len(t) THEN JsonFail
         ELSE IF t[i + 1] = 34 \/ t[i + 1] = 92
           THEN ParseStringFrom(t, i + 2, Append(acc, t[i + 1]))
         ELSE IF t[i + 1] = 110 THEN ParseStringFrom(t, i + 2, Append(acc, 10))
         ELSE JsonFail
  ELSE IF t[i] < 32 THEN JsonFail
  ELSE ParseStringFrom(t, i + 1, Append(acc, t[i]))

RECURSIVE ParseDigitsFrom(_, _, _)
ParseDigitsFrom(t, i, acc) ==
  IF i <= Len(t) /\ IsDigit(t[i])
    THEN ParseDigitsFrom(t, i + 1, 10 * acc + (t[i] - 48))
  ELSE JsonVal(<< >>, acc, << >>, i)

ParseNumber(t, i) ==
  IF i <= Len(t) /\ IsDigit(t[i]) THEN ParseDigitsFrom(t, i, 0) ELSE JsonFail

\* The elements of an array after '[' or ','.
RECURSIVE ParseElementsFrom(_, _, _)
ParseElementsFrom(t, i, acc) ==
  LET n == ParseNumber(t, i)
  IN IF ~n.ok \/ n.next > Len(t) THEN JsonFail
     ELSE IF t[n.next] = 93 THEN JsonVal(<< >>, 0, Append(acc, n.val.num), n.next + 1)
     ELSE IF t[n.next] = 44 THEN ParseElementsFrom(t, n.next + 1, Append(acc, n.val.num))
     ELSE JsonFail

ParseValue(t, i) ==
  IF i > Len(t) THEN JsonFail
  ELSE IF t[i] = 34 THEN ParseStringFrom(t, i + 1, << >>)
  ELSE IF t[i] = 91
    THEN IF i + 1 <= Len(t) /\ t[i + 1] = 93 THEN JsonVal(<< >>, 0, << >>, i + 2)
         ELSE ParseElementsFrom(t, i + 1, << >>)
  ELSE ParseNumber(t, i)

\* The members of an object after '{' or ','; the result maps keys to values.
RECURSIVE ParseMembersFrom(_, _, _)
ParseMembersFrom(t, i, members) ==
  IF i > Len(t) \/ t[i] # 34 THEN [ ok |-> FALSE, members |-> << >> ]
  ELSE LET k == ParseStringFrom(t, i + 1, << >>)
       IN IF ~k.ok \/ k.next > Len(t) \/ t[k.next] # 58
            THEN [ ok |-> FALSE, members |-> << >> ]
          ELSE LET v == ParseValue(t, k.next + 1)
                   all == Append(members, [ key |-> k.val.str, val |-> v.val ])
               IN IF ~v.ok \/ v.next > Len(t) THEN [ ok |-> FALSE, members |-> << >> ]
                  ELSE IF t[v.next] = 125
                    THEN [ ok |-> v.next = Len(t), members |-> all ]
                  ELSE IF t[v.next] = 44 THEN ParseMembersFrom(t, v.next + 1, all)
                  ELSE [ ok |-> FALSE, members |-> << >> ]

JsonParseObject(t) ==
  IF Len(t) < 2 \/ t[1] # 123 THEN [ ok |-> FALSE, members |-> << >> ]
  ELSE IF t[2] = 125 THEN [ ok |-> Len(t) = 2, members |-> << >> ]
  ELSE ParseMembersFrom(t, 2, << >>)

\* meta.key: the value of the last member of that name (undefined reads
\* as the empty value).
RECURSIVE JsonGet(_, _)
JsonGet(members, key) ==
  IF members = << >> THEN JsonFail.val
  ELSE IF members[Len(members)].key = key THEN members[Len(members)].val
  ELSE JsonGet(SubSeq(members, 1, Len(members) - 1), key)

\* DataView.getUint32(offset, true); 0 stands for the RangeError of a read
\* past the end, which the callers test for first.
GetUint32(b, offset) ==
  IF offset + 4 > Len(b) THEN 0
  ELSE b[offset + 1] + 256 * b[offset + 2] + 65536 * b[offset + 3]
         + 16777216 * b[offset + 4]

\* serializeSurface: [nx u32][ny u32][meta_len u32][meta json][padding]
\* [x f32*nx][y f32*ny][z f32*nx*ny], framed as SURFACE_FULL.
SurfacePadding(size) == (4 - (size % 4)) % 4

serializeSurface(s) ==
  LET metaBytes == Utf8Encode(StringifyMeta(s.meta))
      headerSize == 4 + 4 + 4 + Len(metaBytes)
      padding == SurfacePadding(headerSize)
      bytes == U32LE(s.nx) \o U32LE(s.ny) \o U32LE(Len(metaBytes)) \o metaBytes
                 \o [ i \in 1..padding |-> 0 ]
                 \o Float32ArrayBytes(SubSeq(s.x, 1, s.nx))
                 \o Float32ArrayBytes(SubSeq(s.y, 1, s.ny))
                 \o Float32ArrayBytes(SubSeq(s.z, 1, s.nx * s.ny))
  IN encodeFrame(SURFACE_FULL, bytes, 0, 0)

NoMeta ==
  [ xLabel |-> << >>, yLabel |-> << >>, zLabel |-> << >>, xDomain |-> << >>,
    yDomain |-> << >>, zDomain |-> << >>, timestamp |-> 0 ]

SurfaceThrew ==
  [ threw |-> TRUE, nx |-> 0, ny |-> 0, x |-> << >>, y |-> << >>, z |-> << >>,
    meta |-> NoMeta ]

\* The rest of deserializeSurface once the offset of the f32 data is known:
\* the Float32Array constructor throws a RangeError when the start offset
\* is not a multiple of 4 or the buffer is too short.
DeserializeAt(payload, byteOffset, bufferLen, offset, nx, ny, members) ==
  IF (byteOffset + offset) % 4 # 0
     \/ byteOffset + offset + 4 * (nx + ny + nx * ny) > bufferLen
    THEN SurfaceThrew
  ELSE LET f32Data == Float32ArrayRead(payload, offset, nx + ny + nx * ny)
       IN [ threw |-> FALSE, nx |-> nx, ny |-> ny,
            x |-> SubSeq(f32Data, 1, nx),
            y |-> SubSeq(f32Data, nx + 1, nx + ny),
            z |-> SubSeq(f32Data, nx + ny + 1, Len(f32Data)),
            meta |-> [ xLabel |-> JsonGet(members, KeyXLabel).str,
                       yLabel |-> JsonGet(members, KeyYLabel).str,
                       zLabel |-> JsonGet(members, KeyZLabel).str,
                       xDomain |-> JsonGet(members, KeyXDomain).arr,
                       yDomain |-> JsonGet(members, KeyYDomain).arr,
                       zDomain |-> JsonGet(members, KeyZDomain).arr,
                       timestamp |-> JsonGet(members, KeyTimestamp).num ] ]

\* A faulty variant of deserializeSurface: the alignment padding is not skipped.
DeserializeSurfaceNoPadding(payload, byteOffset) ==
  LET nx == GetUint32(payload, 0)
      ny == GetUint32(payload, 4)
      metaLen == GetUint32(payload, 8)
      meta == JsonParseObject(Utf8Decode(Slice(payload, 12, 12 + metaLen)))
  IN IF Len(payload) < 12 \/ ~meta.ok THEN SurfaceThrew
     ELSE DeserializeAt(payload, byteOffset, byteOffset + Len(payload),
                        12 + metaLen, nx, ny, meta.members)

\* deserializeSurface(payload); byteOffset is payload.byteOffset, the place
\* of the payload inside its ArrayBuffer, which ends where the payload ends.
deserializeSurface(payload, byteOffset) ==
  LET nx == GetUint32(payload, 0)
      ny == GetUint32(payload, 4)
      metaLen == GetUint32(payload, 8)
      meta == JsonParseObject(Utf8Decode(Slice(payload, 12, 12 + metaLen)))
      headerSize == 4 + 4 + 4 + metaLen
      padding == SurfacePadding(headerSize)
  IN IF Len(payload) < 12 \/ ~meta.ok THEN SurfaceThrew
     ELSE DeserializeAt(payload, byteOffset, byteOffset + Len(payload),
                        12 + metaLen + padding, nx, ny, meta.members)

\* Sample doubles: 0, 1, -2.5, 0.1f, and three that f32 cannot hold
\* (2^24 + 1 is a tie, 2^25 - 1 rounds up into the next binade).
SerDoubles ==
  << [ neg |-> FALSE, m |-> 0, e |-> 0 ],
     [ neg |-> FALSE, m |-> 1, e |-> 0 ],
     [ neg |-> TRUE, m |-> 5, e |-> -1 ],
     [ neg |-> FALSE, m |-> 13421773, e |-> -27 ],
     [ neg |-> FALSE, m |-> 16777217, e |-> 0 ],
     [ neg |-> TRUE, m |-> 33554435, e |-> -3 ],
     [ neg |-> FALSE, m |-> 33554431, e |-> 4 ] >>

SerDoubleAt(k) == SerDoubles[(k % Len(SerDoubles)) + 1]

MaxLabelLen == 2
SerShapes == { << 0, 1 >>, << 1, 1 >>, << 2, 1 >>, << 1, 2 >> }

\* 'a', '"', '\', line feed and U+00E9 (two bytes in UTF-8).
SerLabelChars == { 97, 34, 92, 10, 233 }

SerMetas ==
  { [ xLabel |-> xl, yLabel |-> yl, zLabel |-> << 97 >>, xDomain |-> d,
      yDomain |-> << 0, 1 >>, zDomain |-> << 3, 12 >>, timestamp |-> 1730 ] :
      xl \in BytesUpTo(SerLabelChars, MaxLabelLen), yl \in { << >>, << 233 >> },
      d \in { << 0, 1 >>, << 10, 250 >> } }

SerSurfaces ==
  { [ nx |-> sh[1], ny |-> sh[2],
      x |-> [ i \in 1..sh[1] |-> SerDoubleAt(k + i) ],
      y |-> [ j \in 1..sh[2] |-> SerDoubleAt(k + j + 2) ],
      z |-> [ c \in 1..(sh[1] * sh[2]) |-> SerDoubleAt(k + 2 * c) ],
      meta |-> meta ] :
      sh \in SerShapes, k \in 0..(Len(SerDoubles) - 1), meta \in SerMetas }

SerInit ==
  ser \in [ pc : {"input"}, surface : SerSurfaces, frame : { << >> },
            payload : { << >> }, byteOffset : {0}, result : { SurfaceThrew } ]

\* const frame = serializeSurface(surface)
SerSerialize ==
  /\ ser.pc = "input"
  /\ ser' = [ ser EXCEPT !.pc = "serialized", !.frame = serializeSurface(ser.surface) ]

\* const decoded = decodeFrame(frame): the payload is a copy (slice), at
\* offset 0 of a buffer of its own.
SerDecodeFrame ==
  /\ ser.pc = "serialized"
  /\ decodeFrame(ser.frame) # NoFrame
  /\ ser' = [ ser EXCEPT !.pc = "decoded", !.payload = decodeFrame(ser.frame).payload,
                         !.byteOffset = 0 ]

\* const result = deserializeSurface(decoded.payload)
SerDeserialize ==
  /\ ser.pc = "decoded"
  /\ ser' = [ ser EXCEPT !.pc = "deserialized",
                         !.result = deserializeSurface(ser.payload, ser.byteOffset) ]

SerOnlyInit ==
  /\ CodecIdle /\ ReaderIdle /\ SixcolIdle
  /\ SerInit
  /\ arb = NotCalled /\ tpl = NotCalled /\ proj = NotCalled
  /\ itp = NotCalled /\ risk = NotCalled
  /\ ExtIdle

SerNext ==
  /\ (SerSerialize \/ SerDecodeFrame \/ SerDeserialize)
  /\ UNCHANGED << codecVars, readerVars, sixcolVars, extVars, arb, tpl, proj, itp, risk >>

SpecSer == SerOnlyInit /\ [][SerNext]_vars

(***************************************************************************)
(* src/render/rasterize.ts (src/src/render/rasterize.ts): raster buffer.   *)
(* A coordinate is a number of half cells (x = h / 2); a depth is          *)
(* [k, v] with k "num" (the number v), "ninf" (-Infinity) or "nan".  A     *)
(* character is named by its code point.                                   *)
(***************************************************************************)
MaxSetChars == 3

Num(v) == [ k |-> "num", v |-> v ]
NegInfinity == [ k |-> "ninf", v |-> 0 ]
NaN == [ k |-> "nan", v |-> 0 ]

\* a >= b on JavaScript numbers: false when either is NaN.
JsGeq(a, b) ==
  /\ a.k # "nan" /\ b.k # "nan"
  /\ \/ b.k = "ninf"
     \/ a.k = "num" /\ b.k = "num" /\ a.v >= b.v

\* depth + 1
JsPlusOne(d) == IF d.k = "num" THEN Num(d.v + 1) ELSE d

\* Math.round of h / 2: halves are rounded towards +Infinity.
MathRound(h) == (h + 1) \div 2

EmptyCell == [ char |-> " ", depth |-> NegInfinity, color |-> "" ]

\* createBuffer(width, height); the cell of column ix and row iy is
\* cells[<< ix, iy >>].
createBuffer(width, height) ==
  [ width |-> width, height |-> height,
    cells |-> [ c \in (0..(width - 1)) \X (0..(height - 1)) |-> EmptyCell ] ]

\* A faulty variant of setChar: the depth test is strict.
SetCharStrict(buf, x, y, char, depth, color) ==
  LET ix == MathRound(x)
      iy == MathRound(y)
  IN IF ix < 0 \/ ix >= buf.width \/ iy < 0 \/ iy >= buf.height THEN buf
     ELSE IF JsGeq(depth, buf.cells[<< ix, iy >>].depth)
             /\ depth # buf.cells[<< ix, iy >>].depth
       THEN [ buf EXCEPT !.cells[<< ix, iy >>] =
                [ char |-> char, depth |-> depth, color |-> color ] ]
     ELSE buf

\* setChar(buf, x, y, char, depth, color)
setChar(buf, x, y, char, depth, color) ==
  LET ix == MathRound(x)
      iy == MathRound(y)
  IN IF ix < 0 \/ ix >= buf.width \/ iy < 0 \/ iy >= buf.height THEN buf
     ELSE IF JsGeq(depth, buf.cells[<< ix, iy >>].depth)
       THEN [ buf EXCEPT !.cells[<< ix, iy >>] =
                [ char |-> char, depth |-> depth, color |-> color ] ]
     ELSE buf

\* A buffer of 2 x 1 cells under a sequence of setChar calls; the k-th call
\* writes the k-th letter.
RasWidth == 2
RasHeight == 1
RasXs == { -3, -1, 1, 4 }
RasYs == { 0, 2 }
RasDepths == { NegInfinity, Num(0), Num(1), NaN }
RasColors == << "red", "blue", "white", "cyan" >>
RasChars == << "A", "B", "C", "D" >>

RasInit ==
  ras = [ pc |-> "drawing", buf |-> createBuffer(RasWidth, RasHeight), calls |-> << >> ]

RasSetChar ==
  /\ ras.pc = "drawing"
  /\ Len(ras.calls) < MaxSetChars
  /\ \E x \in RasXs, y \in RasYs, depth \in RasDepths :
       LET k == Len(ras.calls) + 1
       IN ras' = [ ras EXCEPT
                     !.buf = setChar(ras.buf, x, y, RasChars[k], depth, RasColors[k]),
                     !.calls = Append(@, [ x |-> x, y |-> y, char |-> RasChars[k],
                                           depth |-> depth, color |-> RasColors[k] ]) ]

RasOnlyInit ==
  /\ CodecIdle /\ ReaderIdle /\ SixcolIdle
  /\ arb = NotCalled /\ tpl = NotCalled /\ proj = NotCalled
  /\ itp = NotCalled /\ risk = NotCalled /\ ser = NotCalled
  /\ RasInit
  /\ poll = NotCalled /\ ws = NotCalled /\ shell = NotCalled /\ unsubscribes = << >>

RasNext ==
  RasSetChar /\ UNCHANGED << codecVars, readerVars, sixcolVars, arb, tpl, proj, itp, risk,
                             ser, poll, ws, shell, unsubscribes >>

SpecRas == RasOnlyInit /\ [][RasNext]_vars

\* drawLine: the character of a '─' (U+2500) or '━' (U+2501) line follows
\* its angle deg = atan2(dy, dx): |deg| < 30 or > 150 keeps the character
\* (3 dy^2 < dx^2, or a single point), within 30 of +-90 is vertical
\* (dy^2 > 3 dx^2), otherwise the diagonal of the sign of dy.
LineCharFor(char, dx, dy) ==
  IF char # "U+2500" /\ char # "U+2501" THEN char
  ELSE IF (dx = 0 /\ dy = 0) \/ 3 * dy * dy < dx * dx THEN char
  ELSE IF dy * dy > 3 * dx * dx THEN (IF char = "U+2501" THEN "U+2503" ELSE "U+2502")
  ELSE IF dy > 0 THEN "U+2572"
  ELSE "U+2571"

Abs(n) == IF n < 0 THEN -n ELSE n

\* drawLine, the Bresenham loop from its i-th turn on, at cell (x, y).
RECURSIVE DrawLineFrom(_, _, _, _, _, _)
DrawLineFrom(buf, l, x, y, err, i) ==
  IF i > l.maxIter THEN buf
  ELSE LET drawn == setChar(buf, 2 * x, 2 * y, l.lineChar, l.depth, l.color)
           e2 == 2 * err
           stepX == e2 > -l.dy
           stepY == e2 < l.dx
       IN IF x = l.endX /\ y = l.endY THEN drawn
          ELSE DrawLineFrom(drawn, l,
                            IF stepX THEN x + l.sx ELSE x,
                            IF stepY THEN y + l.sy ELSE y,
                            err - (IF stepX THEN l.dy ELSE 0) + (IF stepY THEN l.dx ELSE 0),
                            i + 1)

\* drawLine(buf, x1, y1, x2, y2, char, depth, color)
drawLine(buf, x1, y1, x2, y2, char, depth, color) ==
  LET x == MathRound(x1)
      y == MathRound(y1)
      endX == MathRound(x2)
      endY == MathRound(y2)
      dx == Abs(endX - x)
      dy == Abs(endY - y)
  IN DrawLineFrom(buf,
                  [ endX |-> endX, endY |-> endY, dx |-> dx, dy |-> dy,
                    sx |-> IF x < endX THEN 1 ELSE -1,
                    sy |-> IF y < endY THEN 1 ELSE -1,
                    lineChar |-> LineCharFor(char, x2 - x1, y2 - y1),
                    depth |-> depth, color |-> color, maxIter |-> dx + dy + 2 ],
                  x, y, dx - dy, 0)

\* drawText, from the i-th character on: setChar(buf, ix + i, iy, text[i], depth + 1, color)
RECURSIVE DrawTextFrom(_, _, _, _, _, _, _)
DrawTextFrom(buf, ix, iy, text, depth, color, i) ==
  IF i >= Len(text) THEN buf
  ELSE DrawTextFrom(setChar(buf, 2 * (ix + i), 2 * iy, text[i + 1], JsPlusOne(depth), color),
                    ix, iy, text, depth, color, i + 1)

\* drawText(buf, x, y, text, depth, color)
drawText(buf, x, y, text, depth, color) ==
  DrawTextFrom(buf, MathRound(x), MathRound(y), text, depth, color, 0)

getLineChar(style) ==
  CASE style = "wireframe" -> "U+2500"
    [] style = "axis" -> "U+2501"
    [] style = "grid" -> "U+00B7"
    [] style = "surface" -> "U+2591"
    [] OTHER -> "U+2500"

getStyleColor(style) ==
  CASE style = "wireframe" -> "blue"
    [] style = "axis" -> "magenta"
    [] style = "grid" -> "blue"
    [] style = "surface" -> "cyan"
    [] OTHER -> ""

\* getHeightChar(zValue), zValue in hundredths: normalized = (zValue + 1) / 2
\* in two-hundredths is zValue + 100.
getHeightChar(zValue) ==
  LET n == zValue + 100
  IN IF n < 16 THEN "U+00B7" ELSE IF n < 40 THEN "U+2219" ELSE IF n < 70 THEN ":"
     ELSE IF n < 100 THEN "U+2591" ELSE IF n < 130 THEN "U+2592"
     ELSE IF n < 160 THEN "U+2593" ELSE IF n < 190 THEN "U+2588" ELSE "U+2580"

getHeightColor(zValue) ==
  LET n == zValue + 100
  IN IF n < 16 THEN "gray" ELSE IF n < 40 THEN "blue" ELSE IF n < 70 THEN "cyan"
     ELSE IF n < 100 THEN "green" ELSE IF n < 130 THEN "yellow"
     ELSE IF n < 160 THEN "magenta" ELSE IF n < 190 THEN "red" ELSE "white"

\* scale = Math.min((width - 4) / frame.width, (height - 2) / frame.height) as
\* a fraction [n, d].
CubeScale(frame, width, height) ==
  IF (width - 4) * frame.height <= (height - 2) * frame.width
    THEN [ n |-> width - 4, d |-> frame.width ]
  ELSE [ n |-> height - 2, d |-> frame.height ]

\* v * scale + (size - extent * scale) / 2 in half cells (the frames of the
\* model make it a whole number of half cells).
CubeCoord(v, scale, size, extent) ==
  (2 * v * scale.n + size * scale.d - extent * scale.n) \div scale.d

NoZValue == 1000

RECURSIVE DrawLines(_, _, _, _, _, _)
DrawLines(buf, frame, width, height, colorBySurface, i) ==
  IF i > Len(frame.lines) THEN buf
  ELSE LET line == frame.lines[i]
           scale == CubeScale(frame, width, height)
           byHeight == line.style = "surface" /\ colorBySurface /\ line.zValue # NoZValue
       IN DrawLines(
            drawLine(buf,
                     CubeCoord(line.x1, scale, width, frame.width),
                     CubeCoord(line.y1, scale, height, frame.height),
                     CubeCoord(line.x2, scale, width, frame.width),
                     CubeCoord(line.y2, scale, height, frame.height),
                     IF byHeight THEN getHeightChar(line.zValue) ELSE getLineChar(line.style),
                     Num(line.depth),
                     IF byHeight THEN getHeightColor(line.zValue)
                     ELSE getStyleColor(line.style)),
            frame, width, height, colorBySurface, i + 1)

RECURSIVE DrawLabels(_, _, _, _, _)
DrawLabels(buf, frame, width, height, i) ==
  IF i > Len(frame.labels) THEN buf
  ELSE LET label == frame.labels[i]
           scale == CubeScale(frame, width, height)
       IN DrawLabels(
            drawText(buf, CubeCoord(label.x, scale, width, frame.width),
                     CubeCoord(label.y, scale, height, frame.height),
                     label.text, Num(label.depth), "white"),
            frame, width, height, i + 1)

\* rasterizeCubeFrame(frame, width, height, { colorBySurface })
rasterizeCubeFrame(frame, width, height, colorBySurface) ==
  DrawLabels(DrawLines(createBuffer(width, height), frame, width, height, colorBySurface, 1),
             frame, width, height, 1)

\* Frames of 4x2, 2x2 and 2x1 units drawn into a buffer of 8x4 cells (scale
\* 1, 1 and 2): up to MaxLines lines in ascending depth, one label.
CubeWidth == 8
CubeHeight == 4
MaxLines == 2
CubeSizes == { << 4, 2 >>, << 2, 2 >>, << 2, 1 >> }

CubeStyles ==
  { << "wireframe", NoZValue >>, << "axis", NoZValue >>, << "grid", NoZValue >>,
    << "surface", NoZValue >>, << "surface", 0 >> }

CubeLinesOf(size) ==
  { [ x1 |-> seg[1], y1 |-> seg[2], x2 |-> seg[3], y2 |-> seg[4], depth |-> d,
      style |-> st[1], zValue |-> st[2] ] :
      seg \in { << 0, 0, size[1], 0 >>, << 0, 0, size[1], size[2] >>,
                << 0, size[2], 0, 0 >> },
      d \in { 0, 5 }, st \in CubeStyles }

CubeLabelsOf(size) ==
  { [ x |-> p[1], y |-> p[2], text |-> t, depth |-> d ] :
      p \in { << 0, 0 >>, << size[1], 0 >> }, t \in { << "X" >>, << "X", "Y" >> },
      d \in { 0, 4 } }

IsSortedByDepth(ls) == \A i \in 1..(Len(ls) - 1) : ls[i].depth <= ls[i + 1].depth

CubeFrames ==
  UNION { { [ width |-> size[1], height |-> size[2], lines |-> ls, labels |-> << lb >> ] :
              ls \in { l \in UNION { [ 1..n -> CubeLinesOf(size) ] : n \in 0..MaxLines } :
                         IsSortedByDepth(l) },
              lb \in CubeLabelsOf(size) } : size \in CubeSizes }

CubeInit ==
  ras \in [ pc : { "frame" }, frame : CubeFrames, colorBySurface : BOOLEAN,
            buf : { createBuffer(CubeWidth, CubeHeight) } ]

\* const buf = rasterizeCubeFrame(frame, width, height, options)
CubeRasterize ==
  /\ ras.pc = "frame"
  /\ ras' = [ ras EXCEPT !.pc = "rasterized",
                         !.buf = rasterizeCubeFrame(ras.frame, CubeWidth, CubeHeight,
                                                    ras.colorBySurface) ]

CubeOnlyInit ==
  /\ CodecIdle /\ ReaderIdle /\ SixcolIdle
  /\ arb = NotCalled /\ tpl = NotCalled /\ proj = NotCalled
  /\ itp = NotCalled /\ risk = NotCalled /\ ser = NotCalled
  /\ CubeInit
  /\ poll = NotCalled /\ ws = NotCalled /\ shell = NotCalled /\ unsubscribes = << >>

CubeNext ==
  CubeRasterize /\ UNCHANGED << codecVars, readerVars, sixcolVars, arb, tpl, proj, itp, risk,
                                ser, poll, ws, shell, unsubscribes >>

SpecCube == CubeOnlyInit /\ [][CubeNext]_vars

(***************************************************************************)
(* column/external.ts: createPollingSource.  The closure's variables       *)
(* running and timer, the timers setTimeout has pending (by handle), and   *)
(* the commands spawned and not yet finished.  Calls, timer callbacks and  *)
(* the resumption of an await each run to their next await in one step.    *)
(***************************************************************************)
\* The most poll cycles (running commands and pending timers) at a time.
MaxPollLoops == 3

NoTimer == 0
TimerHandles == 1..(MaxPollLoops + 1)

\* A handle setTimeout has not handed out, or one no longer referred to.
FreshTimer(p) ==
  CHOOSE h \in TimerHandles :
    /\ h \notin p.pending \cup { p.timer }
    /\ \A g \in TimerHandles : g \notin p.pending \cup { p.timer } => h <= g

\* poll, its end: if (running) timer = setTimeout(poll, intervalMs)
PollReschedule(p) ==
  IF p.running
  THEN LET h == FreshTimer(p)
       IN [ p EXCEPT !.timer = h, !.pending = @ \cup { h } ]
  ELSE p

\* poll, from its call to its first await: if (!running) return; spawn(..).
\* A spawn that throws is caught, reported to onError, and the end of poll runs.
PollBegin(p, spawnThrows) ==
  IF ~p.running THEN p
  ELSE IF spawnThrows
  THEN PollReschedule([ p EXCEPT !.errors = TRUE ])
  ELSE [ p EXCEPT !.procs = @ + 1,
                  !.spawnWhileStopped = @ \/ ~p.running ]

\* poll, from the resumption of await proc.exited to its end: onData when
\* exitCode === 0, then the end of poll.
PollResume(p, code) ==
  PollReschedule(
    IF code = 0
    THEN [ p EXCEPT !.procs = @ - 1, !.delivered = TRUE,
                    !.dataWhileStopped = @ \/ ~p.running ]
    ELSE [ p EXCEPT !.procs = @ - 1 ])

\* createPollingSource(command, intervalMs, { onData, onError })
PollInit ==
  poll = [ pc |-> "created", running |-> FALSE, timer |-> NoTimer, pending |-> {},
           procs |-> 0, delivered |-> FALSE, errors |-> FALSE,
           dataWhileStopped |-> FALSE, spawnWhileStopped |-> FALSE ]

PollUnchanged ==
  UNCHANGED << codecVars, readerVars, sixcolVars, arb, tpl, proj, itp, risk, ser, ras, ws,
               shell, unsubscribes >>

\* start(): running = true; poll()
PollStart ==
  /\ poll.pc = "created"
  /\ poll.procs + Cardinality(poll.pending) < MaxPollLoops
  /\ \E spawnThrows \in BOOLEAN :
       poll' = PollBegin([ poll EXCEPT !.running = TRUE ], spawnThrows)
  /\ PollUnchanged

\* stop(): running = false; if (timer) { clearTimeout(timer); timer = null }
PollStop ==
  /\ poll.pc = "created"
  /\ poll' = IF poll.timer # NoTimer
             THEN [ poll EXCEPT !.running = FALSE, !.pending = @ \ { poll.timer },
                                !.timer = NoTimer ]
             ELSE [ poll EXCEPT !.running = FALSE ]
  /\ PollUnchanged

\* A spawned command ends and the poll that awaits it resumes.
PollCommandExits ==
  /\ poll.pc = "created"
  /\ poll.procs > 0
  /\ \E code \in { 0, 1 } : poll' = PollResume(poll, code)
  /\ PollUnchanged

\* A pending timer fires: poll() is called.  The variable timer keeps the
\* handle.
PollTimerFires ==
  /\ poll.pc = "created"
  /\ \E h \in poll.pending, spawnThrows \in BOOLEAN :
       poll' = PollBegin([ poll EXCEPT !.pending = @ \ { h } ], spawnThrows)
  /\ PollUnchanged

PollOnlyInit ==
  /\ CodecIdle /\ ReaderIdle /\ SixcolIdle
  /\ arb = NotCalled /\ tpl = NotCalled /\ proj = NotCalled
  /\ itp = NotCalled /\ risk = NotCalled /\ ser = NotCalled
  /\ ras = NotCalled /\ ws = NotCalled /\ shell = NotCalled /\ unsubscribes = << >>
  /\ PollInit

PollNext ==
  \/ PollStart
  \/ PollStop
  \/ PollCommandExits
  \/ PollTimerFires

SpecPoll == PollOnlyInit /\ [][PollNext]_vars

(***************************************************************************)
(* column/external.ts: createWebSocketSource.  The closure's variables ws  *)
(* (the current socket, by its readyState) and shouldReconnect, and the    *)
(* reconnect timer setTimeout has pending.                                 *)
(***************************************************************************)
\* The most sockets one source opens, and the most messages either way.
MaxConnections == 3
MaxWsMessages == 2

\* connect: ws = new WebSocket(url)
WsConnect(w) ==
  [ w EXCEPT !.readyState = "CONNECTING", !.opened = @ + 1,
             !.openedAfterClose = @ \/ w.closeCalled ]

\* createWebSocketSource(url, { reconnect, onMessage, onClose }): connect()
WsInit ==
  \E reconnect \in BOOLEAN :
    ws = WsConnect([ pc |-> "created", shouldReconnect |-> reconnect,
                     readyState |-> "none", timer |-> FALSE, opened |-> 0,
                     closeCalled |-> FALSE, openedAfterClose |-> FALSE,
                     received |-> 0, sent |-> 0, onCloseCalls |-> 0 ])

WsUnchanged ==
  UNCHANGED << codecVars, readerVars, sixcolVars, arb, tpl, proj, itp, risk, ser, ras,
               poll, shell, unsubscribes >>

\* The connection is established: ws.onopen
WsOpens ==
  /\ ws.pc = "created"
  /\ ws.readyState = "CONNECTING"
  /\ ws' = [ ws EXCEPT !.readyState = "OPEN" ]
  /\ WsUnchanged

\* A message arrives: ws.onmessage hands it to options.onMessage
WsMessage ==
  /\ ws.pc = "created"
  /\ ws.readyState = "OPEN"
  /\ ws.received < MaxWsMessages
  /\ ws' = [ ws EXCEPT !.received = @ + 1 ]
  /\ WsUnchanged

\* The socket closes (a failed connection, the peer, or the end of a close
\* handshake): ws.onclose calls options.onClose and, if shouldReconnect,
\* setTimeout(connect, reconnectDelay).
WsCloses ==
  /\ ws.pc = "created"
  /\ ws.readyState \in { "CONNECTING", "OPEN", "CLOSING" }
  /\ ws' = [ ws EXCEPT !.readyState = "CLOSED", !.onCloseCalls = @ + 1,
                       !.timer = ws.shouldReconnect ]
  /\ WsUnchanged

\* The reconnect timer fires: connect()
WsTimerFires ==
  /\ ws.pc = "created"
  /\ ws.timer
  /\ ws.opened < MaxConnections
  /\ ws' = WsConnect([ ws EXCEPT !.timer = FALSE ])
  /\ WsUnchanged

\* send(data): if (ws && ws.readyState === WebSocket.OPEN) ws.send(..)
WsSend ==
  /\ ws.pc = "created"
  /\ ws.sent < MaxWsMessages
  /\ ws' = IF ws.readyState = "OPEN" THEN [ ws EXCEPT !.sent = @ + 1 ] ELSE ws
  /\ WsUnchanged

\* close(): shouldReconnect = false; if (ws) ws.close()
WsClose ==
  /\ ws.pc = "created"
  /\ ws' = [ ws EXCEPT !.shouldReconnect = FALSE, !.closeCalled = TRUE,
                       !.readyState = IF @ \in { "CONNECTING", "OPEN" } THEN "CLOSING"
                                      ELSE @ ]
  /\ WsUnchanged

WsOnlyInit ==
  /\ CodecIdle /\ ReaderIdle /\ SixcolIdle
  /\ arb = NotCalled /\ tpl = NotCalled /\ proj = NotCalled
  /\ itp = NotCalled /\ risk = NotCalled /\ ser = NotCalled
  /\ ras = NotCalled /\ poll = NotCalled /\ shell = NotCalled /\ unsubscribes = << >>
  /\ WsInit

WsNext ==
  \/ WsOpens
  \/ WsMessage
  \/ WsCloses
  \/ WsTimerFires
  \/ WsSend
  \/ WsClose

SpecWs == WsOnlyInit /\ [][WsNext]_vars

(***************************************************************************)
(* column/external.ts: spawnShell.  The child writes characters to its     *)
(* stdout and stderr pipes; readOutput runs once per stream, and both runs *)
(* use the one variable buffer of the closure.  A text is the sequence of  *)
(* its characters.                                                         *)
(***************************************************************************)
\* The most characters the child writes, both streams together.
MaxShellChars == 4

LF == "\n"
ShellStreams == { "stdout", "stderr" }
\* What the child writes to each stream.
ShellChars == [ stdout |-> { "o", LF }, stderr |-> { "e", LF } ]

\* text.split('\n') from character i on, cur being the piece begun.
RECURSIVE SplitFrom(_, _, _, _)
SplitFrom(text, i, cur, pieces) ==
  IF i > Len(text) THEN Append(pieces, cur)
  ELSE IF text[i] = LF THEN SplitFrom(text, i + 1, << >>, Append(pieces, cur))
  ELSE SplitFrom(text, i + 1, Append(cur, text[i]), pieces)

\* text.split('\n')
SplitLines(text) == SplitFrom(text, 1, << >>, << >>)

\* readOutput, the body of its loop for one chunk: buffer += decode(value);
\* lines = buffer.split('\n'); buffer = lines.pop() || ''; onLine(line) for
\* each line.
ReadChunk(sh, value) ==
  LET pieces == SplitLines(sh.buffer \o value)
  IN [ sh EXCEPT !.buffer = pieces[Len(pieces)],
                 !.delivered = @ \o SubSeq(pieces, 1, Len(pieces) - 1) ]

\* spawnShell(command, { onLine, onExit })
ShellInit ==
  shell = [ pc |-> "spawned", exited |-> FALSE, buffer |-> << >>,
            written |-> [ s \in ShellStreams |-> << >> ],
            pipe |-> [ s \in ShellStreams |-> << >> ],
            done |-> [ s \in ShellStreams |-> FALSE ],
            delivered |-> << >>, onExitCalls |-> 0 ]

ShellUnchanged ==
  UNCHANGED << codecVars, readerVars, sixcolVars, arb, tpl, proj, itp, risk, ser, ras,
               poll, ws, unsubscribes >>

\* The child writes a character to one of its output streams.
ShellWrite(s) ==
  /\ shell.pc = "spawned"
  /\ ~shell.exited
  /\ Len(shell.written.stdout) + Len(shell.written.stderr) < MaxShellChars
  /\ \E ch \in ShellChars[s] :
       shell' = [ shell EXCEPT !.written[s] = Append(@, ch), !.pipe[s] = Append(@, ch) ]
  /\ ShellUnchanged

\* readOutput of stream s: reader.read() returns some of the bytes the pipe
\* holds, and the body of the loop runs.
ShellRead(s) ==
  /\ shell.pc = "spawned"
  /\ ~shell.done[s]
  /\ \E n \in 1..Len(shell.pipe[s]) :
       shell' = ReadChunk([ shell EXCEPT !.pipe[s] = SubSeq(@, n + 1, Len(@)) ],
                          SubSeq(shell.pipe[s], 1, n))
  /\ ShellUnchanged

\* The child exits: proc.exited.then(onExit)
ShellExit ==
  /\ shell.pc = "spawned"
  /\ ~shell.exited
  /\ shell' = [ shell EXCEPT !.exited = TRUE, !.onExitCalls = @ + 1 ]
  /\ ShellUnchanged

\* readOutput of stream s: reader.read() returns done, the loop ends.
ShellEof(s) ==
  /\ shell.pc = "spawned"
  /\ shell.exited
  /\ ~shell.done[s]
  /\ shell.pipe[s] = << >>
  /\ shell' = [ shell EXCEPT !.done[s] = TRUE ]
  /\ ShellUnchanged

ShellOnlyInit ==
  /\ CodecIdle /\ ReaderIdle /\ SixcolIdle
  /\ arb = NotCalled /\ tpl = NotCalled /\ proj = NotCalled
  /\ itp = NotCalled /\ risk = NotCalled /\ ser = NotCalled
  /\ ras = NotCalled /\ poll = NotCalled /\ ws = NotCalled /\ unsubscribes = << >>
  /\ ShellInit

ShellNext ==
  \/ ShellExit
  \/ \E s \in ShellStreams :
       \/ ShellWrite(s)
       \/ ShellRead(s)
       \/ ShellEof(s)

SpecShell == ShellOnlyInit /\ [][ShellNext]_vars

(***************************************************************************)
(* Specifications.                                                         *)
(***************************************************************************)
Idle == UNCHANGED << codecVars, readerVars, libVars >>

\* Life cycle: start() with its deadline, shutdown(), workers with and
\* without a SHUTDOWN handler of their own; the workers emit READY only.
LifeInit ==
  /\ CodecIdle /\ ReaderIdle /\ LibIdle
  /\ \E h \in { NoHandlers, HandlerAt("C", SHUTDOWN) } :
       SixcolInitWith(<< Wire("A", "SELECTED", "B", "SET_DATA") >>, h)

LifeNext ==
  \/ Start /\ Idle
  \/ TimeoutElapses /\ Idle
  \/ WaitForReady /\ Idle
  \/ ShutdownBegin /\ Idle
  \/ ShutdownFinish /\ Idle
  \/ \E c \in ColIds :
       \/ SupRead(c) /\ Idle
       \/ SupEof(c) /\ Idle
       \/ WorkerStart(c) /\ Idle
       \/ WorkerRead(c) /\ Idle
       \/ WorkerCrash(c) /\ Idle

SpecLife == LifeInit /\ [][LifeNext]_vars

\* shutdown(), from the state start() returns in: the workers (one of them
\* with a SHUTDOWN handler of its own, or none) read the SHUTDOWN frame, and
\* one of them may end unexpectedly.
ShutdownInit ==
  /\ CodecIdle /\ ReaderIdle /\ LibIdle
  /\ \E h \in { NoHandlers, HandlerAt("C", SHUTDOWN) } :
       StartedWith(<< Wire("A", "SELECTED", "B", "SET_DATA") >>, h)

\* What the runtime is bound to do: a process whose stdin holds bytes reads
\* them, a closed pipe reports its end, a settled promise resumes its await.
\* Calling shutdown() and a worker's unexpected end are not bound to happen.
ShutdownProgress ==
  \/ ShutdownFinish /\ Idle
  \/ \E c \in ColIds :
       \/ SupEof(c) /\ Idle
       \/ WorkerRead(c) /\ Idle

ShutdownNext ==
  \/ ShutdownBegin /\ Idle
  \/ ShutdownProgress
  \/ \E c \in ColIds : WorkerCrash(c) /\ Idle

SpecShutdown == ShutdownInit /\ [][ShutdownNext]_vars /\ WF_vars(ShutdownProgress)

\* Event routing, from the state start() returns in: the workers emit events
\* and errors, read what is routed to them, and one of them may exit.  Every
\* wiring table, no worker-side handlers.
RouteInit ==
  /\ CodecIdle /\ ReaderIdle /\ LibIdle
  /\ \E w \in WiringTables : StartedWith(w, NoHandlers)

RouteNext ==
  \E c \in ColIds :
    \/ SupRead(c) /\ Idle
    \/ SupEof(c) /\ Idle
    \/ WorkerEmit(c) /\ Idle
    \/ WorkerRead(c) /\ Idle
    \/ WorkerCrash(c) /\ Idle

SpecRoute == RouteInit /\ [][RouteNext]_vars

\* PING, from the state start() returns in: the embedding program sends PING
\* frames, the workers (one of them with a PING handler of its own, or none)
\* read them, the supervisor reads what they answer.
PingInit ==
  /\ CodecIdle /\ ReaderIdle /\ LibIdle
  /\ \E h \in { NoHandlers, HandlerAt("B", PING) } :
       StartedWith(<< Wire("A", "SELECTED", "B", "SET_DATA") >>, h)

PingNext ==
  \E c \in ColIds :
    \/ ClientPing(c) /\ Idle
    \/ WorkerRead(c) /\ Idle
    \/ SupRead(c) /\ Idle

SpecPing == PingInit /\ [][PingNext]_vars

\* Routing of every kind of event, from the state start() returns in: one
\* rule from A to B for one of the five event types; the workers emit
\* events of the five types, read what is routed to them, and B may exit.
EventTypes == { SELECTED, CLICKED, SUBMITTED, KEY_PRESSED, SCROLL_CHANGED }

EventWiringTables ==
  { << Wire("A", MessageTypeName(t), "B", "SET_DATA") >> : t \in EventTypes }

IsEventFrame(f) == f.type \in EventTypes

\* The widget of worker c emits an event of any type: sendToParent(type, payload).
WorkerEmitEvent(c) ==
  /\ proc[c] = "running"
  /\ wpc[c] = "reading"
  /\ Len(SelectSeq(emitted["A"], IsEventFrame)) + Len(SelectSeq(emitted["B"], IsEventFrame))
       + Len(SelectSeq(emitted["C"], IsEventFrame)) < MaxEvents
  /\ \E type \in EventTypes :
       LET w == sendToParent(WorkerNow(c), type, EventPayload(c, Len(emitted[c])), 0, 0)
       IN /\ outPipe' = [ outPipe EXCEPT ![c] = @ \o w.out ]
          /\ emitted' = [ emitted EXCEPT ![c] = @ \o w.emitted ]
  /\ UNCHANGED << supVars, inPipe, nPartial, workerVars, stdinLog, sentFrames, dispatched, wHandled >>

EventsInit ==
  /\ CodecIdle /\ ReaderIdle /\ LibIdle
  /\ \E w \in EventWiringTables : StartedWith(w, NoHandlers)

EventsNext ==
  \E c \in ColIds :
    \/ SupRead(c) /\ Idle
    \/ SupEof(c) /\ Idle
    \/ WorkerEmitEvent(c) /\ Idle
    \/ WorkerRead(c) /\ Idle
    \/ WorkerCrash(c) /\ Idle

SpecEvents == EventsInit /\ [][EventsNext]_vars

\* onMessage(columnId, type, handler): the handler replaces the one
\* registered under the key; the function returned is kept by the caller.
OnMessage(columnId, type, handler) ==
  /\ Len(unsubscribes) < MaxSubscriptions
  /\ LET key == << columnId, type >>
     IN /\ messageHandlers' =
             [ k \in DOMAIN messageHandlers \cup { key } |->
                 IF k = key THEN handler ELSE messageHandlers[k] ]
        /\ unsubscribes' =
             Append(unsubscribes, [ key |-> key, handler |-> handler, called |-> FALSE ])
  /\ UNCHANGED << wiring, columns, ready, rbuf, reading, threwOn, handlerCalls, phase,
                  timedOut, notReadyMsg, shPhase, dir, errLog, nPings, pipeVars,
                  workerVars, histVars >>
  /\ UNCHANGED << codecVars, readerVars, arb, tpl, proj, itp, risk, ser, ras, poll, ws,
                  shell >>

\* The k-th function onMessage returned is called:
\* () => this.messageHandlers.delete(key)
Unsubscribe(k) ==
  /\ k \in 1..Len(unsubscribes)
  /\ ~unsubscribes[k].called
  /\ messageHandlers' =
       [ key \in DOMAIN messageHandlers \ { unsubscribes[k].key } |-> messageHandlers[key] ]
  /\ unsubscribes' = [ unsubscribes EXCEPT ![k].called = TRUE ]
  /\ UNCHANGED << wiring, columns, ready, rbuf, reading, threwOn, handlerCalls, phase,
                  timedOut, notReadyMsg, shPhase, dir, errLog, nPings, pipeVars,
                  workerVars, histVars >>
  /\ UNCHANGED << codecVars, readerVars, arb, tpl, proj, itp, risk, ser, ras, poll, ws,
                  shell >>

\* Handlers for KEY_PRESSED frames, from the state start() returns in: the
\* embedding program registers handlers and calls the functions returned,
\* the workers emit events and the supervisor reads them.
SubHandlers == { "h1", "h2" }
SubColumns == { "A", "B" }

SubInit ==
  /\ CodecIdle /\ ReaderIdle /\ LibIdle
  /\ StartedWith(<< >>, NoHandlers)

SubNext ==
  \/ \E c \in SubColumns, h \in SubHandlers : OnMessage(c, KEY_PRESSED, h)
  \/ \E k \in 1..MaxSubscriptions : Unsubscribe(k)
  \/ \E c \in SubColumns :
       \/ SupRead(c) /\ Idle
       \/ WorkerEmitEvent(c) /\ Idle

SpecSub == SubInit /\ [][SubNext]_vars

\* Everything together, from construction; the specifications above restrict
\* it to one scenario each, which bounds what the environment does.
Init == CodecIdle /\ ReaderIdle /\ LibIdle /\ SixcolInit

Next == LifeNext \/ RouteNext \/ PingNext

Spec == Init /\ [][Next]_vars

CodecNext ==
  \/ CodecEncode /\ UNCHANGED << readerVars, sixcolVars, libVars >>
  \/ CodecDecode /\ UNCHANGED << readerVars, sixcolVars, libVars >>
  \/ CodecDecodeTruncated /\ UNCHANGED << readerVars, sixcolVars, libVars >>

\* encodeFrame / decodeFrame on every input of CodecInputs.
CodecOnlyInit == CodecInit /\ ReaderIdle /\ SixcolIdle /\ LibIdle

SpecCodec == CodecOnlyInit /\ [][CodecNext]_vars

ReaderNext == ReaderAppend /\ UNCHANGED << codecVars, sixcolVars, libVars >>

\* A FrameReader on every stream of ReaderInit, split every way.
ReaderOnlyInit == CodecIdle /\ ReaderInit /\ SixcolIdle /\ LibIdle

SpecReader == ReaderOnlyInit /\ [][ReaderNext]_vars

(***************************************************************************)
(* Claims.                                                                 *)
(***************************************************************************)
\* The frame a reader or decoder must produce for the input f.
AsFrame(f) ==
  [ header |-> [ length |-> Len(f.payload), type |-> f.type, flags |-> f.flags,
                 seq |-> f.seq ],
    payload |-> f.payload ]

\* The offset in the stream just past the k-th frame of fs.
RECURSIVE EndOffset(_, _)
EndOffset(fs, k) ==
  IF k = 0 THEN 0 ELSE EndOffset(fs, k - 1) + 8 + Len(fs[k].payload)

\* The number of frames of fs whose last byte is among the first pos bytes.
CompleteBy(fs, pos) == Cardinality({ k \in 1..Len(fs) : EndOffset(fs, k) <= pos })

\* C1: however the concatenation of k encoded frames is split into chunks,
\* the frames readAll() has returned after the appends so far are exactly the
\* frames whose last byte has been appended, in their original order, each
\* with the header and payload of the original (none early, twice or skipped).
C1_ReaderReturnsFramesInOrder ==
  rdOut = [ i \in 1..CompleteBy(rdFrames, rdPos) |-> AsFrame(rdFrames[i]) ]

\* Two different frames, fed whole: both returned, nothing left in the buffer.
C1_Witness ==
  /\ Len(rdFrames) = 2
  /\ rdFrames[1] # rdFrames[2]
  /\ rdPos = EndOffset(rdFrames, 2)
  /\ Len(rdOut) = 2
  /\ rdBuf = << >>

\* C9: decodeFrame(encodeFrame(type, payload, flags, seq)) is a frame whose
\* header has length = |payload| and the type, flags and seq given, and whose
\* payload equals the payload given.
C9_CodecRoundTrip == cPc = "decoded" => cOut = AsFrame(cIn)

\* A round trip of the largest flags and seq with a payload of two bytes.
C9_Witness ==
  /\ cPc = "decoded"
  /\ cIn.flags = 255
  /\ cIn.seq = 65535
  /\ Len(cIn.payload) = 2
  /\ cOut # NoFrame

\* The frames in a byte stream, and the bytes left after the last whole one.
RECURSIVE ParseStream(_)
ParseStream(b) ==
  IF Len(b) < 8 THEN [ frames |-> << >>, rest |-> b ]
  ELSE LET n == b[1] + 256 * b[2] + 65536 * b[3] + 16777216 * b[4]
       IN IF Len(b) < 8 + n THEN [ frames |-> << >>, rest |-> b ]
          ELSE LET r == ParseStream(SubSeq(b, 9 + n, Len(b)))
               IN [ frames |-> << [ type |-> b[5], payload |-> SubSeq(b, 9, 8 + n),
                                   flags |-> b[6], seq |-> b[7] + 256 * b[8] ] >>
                                \o r.frames,
                    rest |-> r.rest ]

\* The payloads of the frames of type t in a sequence of frames.
RECURSIVE PayloadsOf(_, _)
PayloadsOf(fs, t) ==
  IF fs = << >> THEN << >>
  ELSE (IF Head(fs).type = t THEN << Head(fs).payload >> ELSE << >>)
         \o PayloadsOf(Tail(fs), t)

\* The payloads of the SET_DATA frames written to the stdin of worker c.
SetDataWritten(c) == PayloadsOf(ParseStream(stdinLog[c]).frames, 32)
\* The payloads of the SELECTED frames of worker c the supervisor dispatched.
SelectedDispatched(c) == PayloadsOf(dispatched[c], 48)

IsPrefix(s, t) == Len(s) <= Len(t) /\ s = SubSeq(t, 1, Len(s))

SingleRule == << Wire("A", "SELECTED", "B", "SET_DATA") >>
StarRule == << Wire("A", "SELECTED", "*", "SET_DATA") >>

\* C2: with the single rule on=(A, SELECTED) do=(B, SET_DATA), for every
\* SELECTED frame of A the supervisor dispatches it writes exactly one
\* SET_DATA frame with the same payload to the stdin of B (while B runs; once
\* B has exited its closed pipe takes no more) and nothing to A or C.
C2_SingleRuleRoutesToTargetOnly ==
  wiring = SingleRule =>
    /\ stdinLog["A"] = << >>
    /\ stdinLog["C"] = << >>
    /\ ParseStream(stdinLog["B"]).rest = << >>
    /\ Len(PayloadsOf(ParseStream(stdinLog["B"]).frames, 32))
         = Len(ParseStream(stdinLog["B"]).frames)
    /\ IsPrefix(SetDataWritten("B"), SelectedDispatched("A"))
    /\ (proc["B"] = "running" => SetDataWritten("B") = SelectedDispatched("A"))

\* A emitted one SELECTED frame, B got one SET_DATA frame with its payload,
\* while C emitted a SELECTED frame too.
C2_Witness ==
  /\ wiring = SingleRule
  /\ proc["B"] = "running"
  /\ SelectedDispatched("A") = << EventPayload("A", 1) >>
  /\ SetDataWritten("B") = << EventPayload("A", 1) >>
  /\ SelectedDispatched("C") # << >>

\* C3: with a rule whose target is "*", for every SELECTED frame of the
\* source A the supervisor dispatches, every other worker (B and C, while
\* they run) is written exactly one SET_DATA frame, and A none.
C3_StarRuleBroadcasts ==
  wiring = StarRule =>
    /\ SetDataWritten("A") = << >>
    /\ (proc["B"] = "running" => SetDataWritten("B") = SelectedDispatched("A"))
    /\ (proc["C"] = "running" => SetDataWritten("C") = SelectedDispatched("A"))

\* The event numbers (second payload byte) of the SET_DATA frames written to
\* dst that carry an event of src (first payload byte).
RECURSIVE EventNumbers(_, _)
EventNumbers(ps, src) ==
  IF ps = << >> THEN << >>
  ELSE (IF Len(Head(ps)) = 2 /\ Head(ps)[1] = ColDigit(src)
        THEN << Head(ps)[2] >> ELSE << >>) \o EventNumbers(Tail(ps), src)

\* C6: the SET_DATA frames the stdin of a worker receives for the events of
\* one source worker arrive in the order the source emitted the events (the
\* k-th frame a worker emits carries the number k).
C6_RoutedInEmissionOrder ==
  \A src \in ColIds, dst \in ColIds :
    LET ns == EventNumbers(SetDataWritten(dst), src)
    IN \A i \in 1..Len(ns), j \in 1..Len(ns) : i < j => ns[i] < ns[j]

\* Two events of A have reached the stdin of B.
C6_Witness ==
  /\ Len(EventNumbers(SetDataWritten("B"), "A")) = 2
  /\ nPartial > 0

\* C7: the read loop of a worker's stdout is never ended by a failure tied
\* to another worker: when it ends by an exception, the failure is the
\* worker's own.
C7_FailuresDoNotCascade ==
  \A c \in ColIds : reading[c] = "threw" => threwOn[c][2] = c

\* C8: what a worker finds on its stdin is a sequence of whole frames, the
\* frames sendToColumn was called with for it, in order: no partial frame, no
\* bytes of two frames interleaved; what it has not consumed yet starts at a
\* frame boundary of what it is parsing.
C8_StdinHoldsWholeFrames ==
  \A c \in ColIds :
    /\ ParseStream(stdinLog[c]).rest = << >>
    /\ ParseStream(stdinLog[c]).frames = sentFrames[c]
    /\ (proc[c] = "running" => ParseStream(wbuf[c] \o inPipe[c]).rest = << >>)

\* B has been written events of A and of C.
C8_Witness ==
  /\ EventNumbers(SetDataWritten("B"), "A") # << >>
  /\ EventNumbers(SetDataWritten("B"), "C") # << >>
  /\ wbuf["B"] # << >>

\* The ids a sequence lists.
Listed(ids) == { ids[i] : i \in 1..Len(ids) }

\* C4: start() returns successfully only with every ready flag true, and when
\* it fails (the deadline of waitForReady has passed) its error lists exactly
\* the ids of the workers whose ready flag is false, each once.
C4_StartSucceedsOnlyWhenAllReady ==
  [][ /\ (phase = "waiting" /\ phase' = "started" => \A c \in ColIds : ready'[c])
      /\ (phase = "waiting" /\ phase' = "failed" =>
            /\ timedOut
            /\ Listed(notReadyMsg') = { c \in ColIds : ~ready'[c] }
            /\ Len(notReadyMsg') = Cardinality({ c \in ColIds : ~ready'[c] })) ]_vars

\* start() has failed listing B alone, A and C being ready.
C4_Witness ==
  /\ phase = "failed"
  /\ notReadyMsg = << "B" >>
  /\ ready["A"] /\ ready["C"] /\ ~ready["B"]

\* TRUE iff the stdin of worker c was written a SHUTDOWN frame whose payload
\* is the JSON text {"reason":"shutdown"}.
ShutdownWritten(c) ==
  \E i \in 1..Len(ParseStream(stdinLog[c]).frames) :
    /\ ParseStream(stdinLog[c]).frames[i].type = 2
    /\ ParseStream(stdinLog[c]).frames[i].payload = ShutdownPayload

\* C5: once shutdown() is past its broadcast, every worker has been written
\* the SHUTDOWN frame {reason:"shutdown"} (but a worker whose process had
\* ended unexpectedly, whose pipe is closed); and the directory is removed
\* only by a shutdown() that has seen every worker process exit: it is never
\* removed while a worker process is running.
C5_ShutdownRemovesDirAfterExits ==
  /\ (shPhase \in { "awaiting", "done" } =>
        \A c \in ColIds : ShutdownWritten(c) \/ exitCode[c] = 1)
  /\ (dir = "removed" => shPhase = "done" /\ \A c \in ColIds : proc[c] = "exited")

\* shutdown() has completed: every worker exited with code 0 on SHUTDOWN, the
\* directory is removed.
C5_Witness ==
  /\ dir = "removed"
  /\ \A c \in ColIds : exitCode[c] = 0 /\ ShutdownWritten(c)

\* The << payload, seq >> of the frames of type t in a sequence of frames.
RECURSIVE PayloadSeqOf(_, _)
PayloadSeqOf(fs, t) ==
  IF fs = << >> THEN << >>
  ELSE (IF Head(fs).type = t THEN << << Head(fs).payload, Head(fs).seq >> >> ELSE << >>)
         \o PayloadSeqOf(Tail(fs), t)

\* C10: the PONG frames a worker has emitted are, in order, one for each PING
\* frame it has been handed from stdin, with the payload and seq of the PING.
C10_EveryPingAnswered ==
  \A c \in ColIds : PayloadSeqOf(emitted[c], 4) = PayloadSeqOf(wHandled[c], 3)

\* C11: a worker that has been handed a SHUTDOWN frame from its stdin has
\* exited with code 0, whatever handlers are registered in it.
C11_ShutdownFrameExitsWorker ==
  \A c \in ColIds :
    PayloadSeqOf(wHandled[c], 2) # << >> => proc[c] = "exited" /\ exitCode[c] = 0

\* The surface enforceArbitrageFree holds (and, once it has returned, returns).
ArbCurrent == [ arb.surface EXCEPT !.z = arb.z ]

TplDeclaredIds(t) == { t.columns.items[k].id : k \in 1..Len(t.columns.items) }
TplHasDuplicateId(t) ==
  \E k \in 1..Len(t.columns.items), m \in 1..Len(t.columns.items) :
    k # m /\ t.columns.items[k].id = t.columns.items[m].id
TplHasDanglingWire(t) ==
  \E k \in 1..Len(t.wiring.items) :
    \/ t.wiring.items[k].on.column \notin TplDeclaredIds(t)
    \/ t.wiring.items[k].do.column \notin TplDeclaredIds(t) \cup { "*" }
TplIsFaulty(t) ==
  /\ t.isObject
  /\ t.columns.isArray
  /\ \/ TplHasDuplicateId(t)
     \/ t.wiring.isArray /\ TplHasDanglingWire(t)

\* C13: for every template with a duplicated column id or a dangling wiring
\* source or target, validateTemplate returns valid = false with at least one
\* error entry, and loadTemplate throws instead of returning the template.
C13_FaultyTemplateRejected ==
  TplIsFaulty(tpl.template) =>
    /\ tpl.pc = "validated" => ~tpl.result.valid /\ Len(tpl.result.errors) > 0
    /\ tpl.pc = "loaded" => tpl.result.threw

\* A template that is faulty only by the target of one rule was validated.
C13_Witness ==
  /\ tpl.pc = "validated"
  /\ tpl.template.isObject
  /\ tpl.template.name = "t"
  /\ tpl.template.columns.items = << [ id |-> "a", type |-> "list" ] >>
  /\ tpl.template.wiring.items =
       << [ on |-> [ column |-> "a", event |-> "SELECTED" ],
            do |-> [ column |-> "z", action |-> "SET_DATA" ] ] >>
  /\ tpl.result.errors = << << "Wiring references unknown target column", "z" >> >>

\* C14: a projection that starts with azimuth in [0,360) and elevation in
\* [-89,89] has azimuth in [0,360) and elevation in [-89,89] after any
\* sequence of rotateProjection calls, whatever the deltas.
C14_RotationKeepsAnglesInRange ==
  proj.pc \in { "created", "rotated" } =>
    /\ 0 <= proj.azimuth /\ proj.azimuth < 360
    /\ -89 <= proj.elevation /\ proj.elevation <= 89

\* The point of the axis range nearest to v.
ItpNearestInRange(values, v) == ClampIndex(v, values[1], values[Len(values)])

\* C15: for each method, interpolate at a point outside the range of the
\* axes returns the value the method gives at the nearest point within the
\* range (the query is clamped to the boundary).
C15_OutOfRangeQueryIsClamped ==
  itp.pc = "returned" =>
    LET inRange == interpolate(itp.surface,
                               ItpNearestInRange(itp.surface.x, itp.x),
                               ItpNearestInRange(itp.surface.y, itp.y), itp.method)
    IN itp.result.num * inRange.den = inRange.num * itp.result.den

\* The total variance w = z^2 * T of cell (i, j) of a surface, in millionths.
TotalVariance(s, i, j) == s.z[i * s.ny + j + 1] * s.z[i * s.ny + j + 1] * s.x[i + 1]

\* C16: checkCalendarArbitrage reports a violation for strike column j and
\* the consecutive expiries (T1, T2) = (x[i], x[i+1]) exactly when
\* w(T2) < w(T1) - tolerance, once, with the magnitude w(T1) - w(T2); so a
\* surface with z = 0.2 everywhere has none, and z[0,j] = 0.4, z[1,j] = 0.1
\* with x = (1, 2) has one at strike j.
C16_CalendarViolationsExact ==
  arb.pc = "checked" =>
    LET s == arb.surface
        at(i, j) == { k \in 1..Len(arb.cal) :
                        /\ arb.cal[k].type = "calendar"
                        /\ arb.cal[k].x1 = s.x[i + 1] /\ arb.cal[k].x2 = s.x[i + 2]
                        /\ arb.cal[k].y = s.y[j + 1] }
        pairs == { << i, j >> \in (0..(s.nx - 2)) \X (0..(s.ny - 1)) :
                     TotalVariance(s, i + 1, j) < TotalVariance(s, i, j) - arb.tol * 1000 }
    IN /\ \A i \in 0..(s.nx - 2), j \in 0..(s.ny - 1) :
            IF << i, j >> \in pairs
            THEN /\ Cardinality(at(i, j)) = 1
                 /\ \A k \in at(i, j) :
                      arb.cal[k].violation = TotalVariance(s, i, j) - TotalVariance(s, i + 1, j)
            ELSE at(i, j) = {}
       /\ Len(arb.cal) = Cardinality(pairs)
       /\ ((\A k \in 1..Len(s.z) : s.z[k] = 200) => arb.cal = << >>)
       /\ \A j \in 0..(s.ny - 1) :
            (s.nx = 2 /\ s.z[j + 1] = 400 /\ s.z[s.ny + j + 1] = 100) => at(0, j) # {}

\* checkCalendarArbitrage has run on z = (0.4, 0.2, 0.4; 0.1, 0.2, 0.4) with x = (1, 2):
\* a violation at the first strike only.
C16_Witness ==
  /\ arb.pc = "checked"
  /\ arb.tol = DefaultTolerance
  /\ arb.surface.z = << 400, 200, 400, 100, 200, 400 >>
  /\ Len(arb.cal) = 1
  /\ arb.cal[1].y = 90

\* C17: for any non-empty slope field computeRiskMetrics returns a riskScore
\* that is a number in [0,1], and for a field whose magnitudes and
\* derivatives are all zero riskScore = 0.
C17_RiskScoreInUnitInterval ==
  risk.pc = "returned" =>
    /\ ~risk.result.riskScore.nan
    /\ 0 <= risk.result.riskScore.v /\ risk.result.riskScore.v <= FloatOne
    /\ ((\A i \in 1..Len(risk.slope.magnitude) :
           risk.slope.magnitude[i] = 0 /\ risk.slope.dz_dx[i] = 0)
          => risk.result.riskScore.v = 0)

(***************************************************************************)
(* C18: for a Surface whose values f32 can hold, deserializing the payload *)
(* of the serialized frame gives the same nx, ny and labels, and x, y, z   *)
(* arrays of nx, ny and nx*ny values equal to the originals; for any       *)
(* finite values each element is the original rounded to f32.  This holds  *)
(* whatever the byte length of the JSON metadata.                          *)
(***************************************************************************)
Representable(values) == \A i \in 1..Len(values) : fround(values[i]) = Canon(values[i])

Rounded(values) == [ i \in 1..Len(values) |-> fround(values[i]) ]

SerMetaLen == GetUint32(ser.payload, 8)

C18_SurfaceRoundTrip ==
  ser.pc = "deserialized" =>
    LET s == ser.surface
        r == ser.result
    IN /\ ~r.threw
       /\ r.nx = s.nx /\ r.ny = s.ny
       /\ r.meta.xLabel = s.meta.xLabel
       /\ r.meta.yLabel = s.meta.yLabel
       /\ r.meta.zLabel = s.meta.zLabel
       /\ Len(r.x) = s.nx /\ Len(r.y) = s.ny /\ Len(r.z) = s.nx * s.ny
       /\ r.x = Rounded(s.x) /\ r.y = Rounded(s.y) /\ r.z = Rounded(s.z)
       /\ (Representable(s.x) => r.x = [ i \in 1..s.nx |-> Canon(s.x[i]) ])
       /\ (Representable(s.y) => r.y = [ i \in 1..s.ny |-> Canon(s.y[i]) ])
       /\ (Representable(s.z) => r.z = [ i \in 1..(s.nx * s.ny) |-> Canon(s.z[i]) ])

\* A surface of f32 values with a two-byte character and an escaped one in
\* its label, three bytes of padding, read back.
C18_Witness ==
  /\ ser.pc = "deserialized"
  /\ ~ser.result.threw
  /\ SurfacePadding(12 + SerMetaLen) = 3
  /\ ser.surface.meta.xLabel = << 233, 34 >>
  /\ ser.surface.nx = 2
  /\ Representable(ser.surface.x) /\ Representable(ser.surface.y)
  /\ Representable(ser.surface.z)
  /\ \E i \in 1..Len(ser.surface.z) : ser.surface.z[i].m > 1

\* The payloads of the frames in a sequence whose type has the given name.
RECURSIVE PayloadsOfNamed(_, _)
PayloadsOfNamed(fs, name) ==
  IF fs = << >> THEN << >>
  ELSE (IF MessageTypeName(Head(fs).type) = name THEN << Head(fs).payload >> ELSE << >>)
         \o PayloadsOfNamed(Tail(fs), name)

\* C19: an inbound frame of any event type (SELECTED, CLICKED, SUBMITTED,
\* KEY_PRESSED, SCROLL_CHANGED) triggers the wiring lookup: with the one rule
\* on=(A, event) do=(B, SET_DATA), for every frame of A the supervisor
\* dispatches whose type has the rule's event name, B (while it runs) is
\* written one SET_DATA frame with the frame's payload.
C19_EveryEventTypeRouted ==
  (wiring \in EventWiringTables /\ proc["B"] = "running") =>
    SetDataWritten("B") = PayloadsOfNamed(dispatched["A"], wiring[1].on.event)

\* The number of frames of type t in a sequence of frames.
CountOf(fs, t) == Len(PayloadsOf(fs, t))

\* The number of errors logged for worker c.
RECURSIVE ErrorsLogged(_, _)
ErrorsLogged(log, c) ==
  IF log = << >> THEN 0
  ELSE (IF Head(log).col = c /\ Head(log).what = "error" THEN 1 ELSE 0)
         + ErrorsLogged(Tail(log), c)

\* C20: after an ERROR frame of a worker, whatever the bytes of its payload,
\* the supervisor logs the error and keeps reading that worker: every ERROR
\* frame dispatched is logged, and no read loop is ended by the handling of
\* an ERROR frame.
C20_ErrorFrameLoggedAndReadingContinues ==
  \A c \in ColIds :
    /\ ErrorsLogged(errLog, c) = CountOf(dispatched[c], ERROR)
    /\ ~(reading[c] = "threw" /\ threwOn[c][1] = "parse")

\* C21: shutdown() always completes: once it has sent SHUTDOWN and waits for
\* the worker processes, it eventually returns (a worker that does not exit
\* is killed after the grace period).
C21_ShutdownCompletes == (shPhase = "awaiting") ~> (shPhase = "done")

\* The calls (by index) whose rounded coordinates are the cell and whose
\* depth is a number or -Infinity: the calls that can write the cell.
RasHits(cell) ==
  { k \in 1..Len(ras.calls) :
      /\ MathRound(ras.calls[k].x) = cell[1]
      /\ MathRound(ras.calls[k].y) = cell[2]
      /\ ras.calls[k].depth # NaN }

\* The calls among ks whose depth is the maximum of the depths of ks.
RasDeepest(ks) ==
  { k \in ks : \A j \in ks : JsGeq(ras.calls[k].depth, ras.calls[j].depth) }

RasLatest(ks) == CHOOSE k \in ks : \A j \in ks : j <= k

\* C22: after any sequence of setChar calls every cell holds the char and
\* color of the latest call among those that wrote the maximum depth to it,
\* and that depth; a cell no call wrote is as createBuffer left it, so a call
\* whose coordinates are out of bounds changes no cell.
C22_CellHoldsLatestDeepestWrite ==
  ras.pc = "drawing" =>
    \A cell \in DOMAIN ras.buf.cells :
      IF RasHits(cell) = {} THEN ras.buf.cells[cell] = EmptyCell
      ELSE LET k == RasLatest(RasDeepest(RasHits(cell)))
           IN ras.buf.cells[cell] =
                [ char |-> ras.calls[k].char, depth |-> ras.calls[k].depth,
                  color |-> ras.calls[k].color ]

\* Cell (1, 0) was written at depth 1, then at depth 0 (no effect), then at
\* depth 1 again: it shows the third call.
C22_Witness ==
  /\ ras.pc = "drawing"
  /\ Len(ras.calls) = 3
  /\ \A k \in 1..3 : MathRound(ras.calls[k].x) = 1 /\ MathRound(ras.calls[k].y) = 0
  /\ ras.calls[1].depth = Num(1) /\ ras.calls[2].depth = Num(0)
  /\ ras.calls[3].depth = Num(1)
  /\ ras.buf.cells[<< 1, 0 >>].char = "C"

\* The cell the i-th character (from 0) of a label is drawn at.
LabelCell(label, i) ==
  LET scale == CubeScale(ras.frame, CubeWidth, CubeHeight)
  IN << MathRound(CubeCoord(label.x, scale, CubeWidth, ras.frame.width)) + i,
        MathRound(CubeCoord(label.y, scale, CubeHeight, ras.frame.height)) >>

\* C23: after rasterizeCubeFrame every in-bounds cell covered by a label
\* shows that label's character, whatever the depths of the lines drawn
\* through the cell.
C23_LabelsOnTopOfLines ==
  ras.pc = "rasterized" =>
    \A k \in 1..Len(ras.frame.labels) :
      \A i \in 0..(Len(ras.frame.labels[k].text) - 1) :
        LabelCell(ras.frame.labels[k], i) \in DOMAIN ras.buf.cells =>
          ras.buf.cells[LabelCell(ras.frame.labels[k], i)].char
            = ras.frame.labels[k].text[i + 1]

\* The severity of a magnitude for thresholds lo < hi: minor below lo,
\* moderate from lo to below hi, severe from hi on.
SeverityFor(magnitude, lo, hi) ==
  IF magnitude < lo THEN "minor" ELSE IF magnitude < hi THEN "moderate" ELSE "severe"

\* C24: in each check a reported violation's severity is minor below the
\* lower threshold, moderate from the lower to below the upper threshold and
\* severe from the upper threshold on (calendar 0.005 / 0.01, butterfly
\* 0.01 / 0.02, vertical 0.5 / 1.0), magnitudes equal to a threshold included.
C24_SeverityByThreshold ==
  (arb.pc = "checked" /\ "vert" \in DOMAIN arb) =>
    /\ \A k \in 1..Len(arb.cal) :
         arb.cal[k].severity = SeverityFor(arb.cal[k].violation, 5000, 10000)
    /\ \A k \in 1..Len(arb.fly) :
         arb.fly[k].severity = SeverityFor(arb.fly[k].violation, 20, 40)
    /\ \A k \in 1..Len(arb.vert) :
         arb.vert[k].severity = SeverityFor(arb.vert[k].violation, 500, 1000)

\* The cells (as indexes i * ny + j + 1) named by a list of zones of a field
\* with ny columns.
ZoneCells(zones, ny) == { zones[k].xi * ny + zones[k].yi + 1 : k \in 1..Len(zones) }

\* C25: highRiskZones holds the cells with magnitude >= 0.7 * maxSlope, by
\* magnitude descending, cut to 10, and flatZones holds the cells with
\* magnitude <= 0.1 * maxSlope cut to 10, each condition applied to every
\* cell on its own: a flat cell is in flatZones even when it also is high-risk.
C25_ZonesSelectedIndependently ==
  risk.pc = "returned" =>
    LET r == risk.result
        mags == risk.slope.magnitude
        ny == Len(mags)
        high == { i \in 1..ny : mags[i] >= FloatMul(r.maxSlope, FloatLiteral(7, 10)) }
        flat == { i \in 1..ny : mags[i] <= FloatMul(r.maxSlope, FloatLiteral(1, 10)) }
    IN /\ Len(r.highRiskZones) = Min(10, Cardinality(high))
       /\ ZoneCells(r.highRiskZones, ny) \subseteq high
       /\ Cardinality(ZoneCells(r.highRiskZones, ny)) = Len(r.highRiskZones)
       /\ \A k \in 1..Len(r.highRiskZones) :
            /\ r.highRiskZones[k].magnitude = mags[r.highRiskZones[k].yi + 1]
            /\ k > 1 => r.highRiskZones[k - 1].magnitude >= r.highRiskZones[k].magnitude
       /\ Len(r.flatZones) = Min(10, Cardinality(flat))
       /\ ZoneCells(r.flatZones, ny) \subseteq flat
       /\ Cardinality(ZoneCells(r.flatZones, ny)) = Len(r.flatZones)

\* C26: the function onMessage(columnId, type, h) returned removes only h:
\* called while a handler registered later under the same (columnId, type) is
\* the one registered, it leaves that handler registered, so that it still
\* receives the frames of that type.
C26_UnsubscribeRemovesOnlyOwnHandler ==
  [][\A k \in 1..Len(unsubscribes) :
       ( /\ ~unsubscribes[k].called /\ unsubscribes'[k].called
         /\ unsubscribes[k].key \in DOMAIN messageHandlers
         /\ messageHandlers[unsubscribes[k].key] # unsubscribes[k].handler )
       => ( /\ unsubscribes[k].key \in DOMAIN messageHandlers'
            /\ messageHandlers'[unsubscribes[k].key] = messageHandlers[unsubscribes[k].key] )
    ]_vars

\* C27: after stop() on a polling source, until start() is called again,
\* onData is not invoked and no command is spawned, also when a command was
\* running at the time of stop().
C27_NothingAfterStop ==
  poll.pc = "created" => ~poll.dataWhileStopped /\ ~poll.spawnWhileStopped

\* C28: for every interleaving of start() and stop() with the poll cycle, at
\* most one poll cycle (a running command or a pending timer) exists.
C28_AtMostOnePollCycle ==
  poll.pc = "created" => poll.procs + Cardinality(poll.pending) <= 1

\* C29: after close() on a WebSocket source no new WebSocket is opened, also
\* when close() is called while a reconnect is scheduled.
C29_NoConnectionAfterClose ==
  ws.pc = "created" => ~ws.openedAfterClose

\* The complete lines (ended by a line feed) of what the child has written
\* to stream s.
LinesWritten(s) ==
  LET pieces == SplitLines(shell.written[s]) IN SubSeq(pieces, 1, Len(pieces) - 1)

\* d is made of the first lines of a and the first lines of b, each in order.
RECURSIVE IsInterleaving(_, _, _)
IsInterleaving(d, a, b) ==
  \/ d = << >>
  \/ a # << >> /\ d[1] = a[1] /\ IsInterleaving(Tail(d), Tail(a), b)
  \/ b # << >> /\ d[1] = b[1] /\ IsInterleaving(Tail(d), a, Tail(b))

\* C30: every line spawnShell passes to onLine is one complete line the child
\* wrote to stdout or to stderr, never bytes of both streams joined, and the
\* lines of one stream are delivered in the order written.
C30_LinesAreWholeAndOrdered ==
  shell.pc = "spawned" =>
    IsInterleaving(shell.delivered, LinesWritten("stdout"), LinesWritten("stderr"))

====
